---- MODULE Spec2Model ----
(***************************************************************************)
(* Podcast Insights: the episode store, the feed ingestor, the episode     *)
(* pipeline (download -> transcribe -> insights) and its orchestrators:    *)
(* the polling Watcher (watcher.py) and the interactive EpisodeProcessor   *)
(* (processors.py, podcast_insights.py).                                   *)
(***************************************************************************)
EXTENDS Integers, Sequences, FiniteSets, TLC

\* ------------------------------------------------------------------ bounds
NumFeeds == 2
MaxDoc == 2
MaxRuns == 2
SleepTicks == 1
MaxBytes == 2
MaxRows == 3
MaxInput == 4
MaxCount == 3

\* --------------------------------------------------------- program values
max_retries == 3

retry_backoff_seconds == 5

NULL == "NULL"

NoMsg == <<>>

Feeds == 1..NumFeeds

Kinds == {"audio", "transcript", "insights"}

Statuses == {"new", "downloading", "downloaded", "transcribing", "transcribed", "analyzing", "done", "error"}

\* max_new_per_feed of the configuration: NULL is no cap (None), "1" is 1
MaxNewValues == {"1"}

CapOf(m) == IF m = "1" THEN 1 ELSE IF m = "2" THEN 2 ELSE 0

\* --------------------------------------------------- feed entries (input)
\* What feedparser hands over for an entry: guid (entry_guid), audio
\* (select_enclosure), title, dt (entry_datetime).  In the first feed the
\* second entry has no guid and shares publish day and title with the first,
\* the third repeats the first one's guid and the second one's audio URL,
\* the fourth has no enclosure; the second feed repeats the first entry.
Catalog == { [feed |-> 1, guid |-> "g1", audio |-> "a1", title |-> "t1", dt |-> 4],
             [feed |-> 1, guid |-> NULL, audio |-> "a2", title |-> "t1", dt |-> 5],
             [feed |-> 1, guid |-> "g1", audio |-> "a2", title |-> "t3", dt |-> 6],
             [feed |-> 1, guid |-> "g5", audio |-> NULL, title |-> "t5", dt |-> 7],
             [feed |-> 2, guid |-> "g1", audio |-> "a1", title |-> "t1", dt |-> 4] }

\* entry_pubdate keeps the day of the datetime entry_datetime returns
entry_pubdate(e) == e.dt \div 2

\* the feed documents a fetch of feed f can return
Docs(f) == { D \in SUBSET { e \in Catalog : e.feed = f } : Cardinality(D) <= MaxDoc }

\* a sort that puts the oldest entry first
RECURSIVE SortOldestFirst(_)
SortOldestFirst(D) == IF D = {} THEN <<>>
                      ELSE LET m == CHOOSE e \in D : \A o \in D : e.dt <= o.dt
                           IN <<m>> \o SortOldestFirst(D \ {m})

RECURSIVE SortNewestFirst(_)
SortNewestFirst(D) == IF D = {} THEN <<>>
                      ELSE LET m == CHOOSE e \in D : \A o \in D : o.dt <= e.dt
                           IN <<m>> \o SortNewestFirst(D \ {m})

\* ------------------------------------------------------------------ store
Ids(s) == 1..Len(s)

\* a status write that does not reach the store
LostStatusWrite(s, id, status, error) == s

\* a status write that creates the row it does not find
UpsertStatusWrite(s, id, status, error) ==
  IF id \in Ids(s) THEN [s EXCEPT ![id].status = status, ![id].error = error]
  ELSE Append(s, [feed |-> 1, guid |-> NULL, audio |-> NULL, title |-> "t1", pub_date |-> 0,
                  status |-> status, error |-> error])

\* a status write that leaves the error column alone when it has no message
StatusWriteKeepsError(s, id, status, error) ==
  IF id \notin Ids(s) THEN s
  ELSE IF error = NoMsg THEN [s EXCEPT ![id].status = status]
  ELSE [s EXCEPT ![id].status = status, ![id].error = error]

\* "UPDATE episodes SET status = ?, error = ?, ... WHERE id = ?": no row, no change
update_episode_status(s, id, status, error) ==
  IF id \in Ids(s) THEN [s EXCEPT ![id].status = status, ![id].error = error] ELSE s

NotFoundMsg(id) == <<"Episode not found:", id>>

\* the row, or KeyError("Episode not found: <id>")
get_episode_by_id(s, id) ==
  IF id \in Ids(s) THEN [ok |-> TRUE, row |-> s[id], err |-> NoMsg]
  ELSE [ok |-> FALSE, row |-> NULL, err |-> NotFoundMsg(id)]

\* None and the empty string: what "if guid:" and "x or y" take as unset
Falsy == {NULL, ""}

\* a lookup that tries the audio URL before the guid
find_episode_audio_first(s, feed_id, guid, audio_url) ==
  LET byGuid == { i \in Ids(s) : s[i].feed = feed_id /\ s[i].guid = guid }
      byAudio == { i \in Ids(s) : s[i].feed = feed_id /\ s[i].audio = audio_url }
  IN IF audio_url \notin Falsy /\ byAudio # {} THEN CHOOSE i \in byAudio : TRUE
     ELSE IF guid \notin Falsy /\ byGuid # {} THEN CHOOSE i \in byGuid : TRUE
     ELSE 0

\* a "row[...] or value" that always takes the value passed in
TakeNew(a, b) == b

\* Python's "a or b"
PyOr(a, b) == IF a \notin Falsy THEN a ELSE b

\* upsert_feed on the feeds table t (row i has id i): the table it leaves and
\* the id it returns
upsert_feed(t, url, name, slug) ==
  LET hit == { i \in 1..Len(t) : t[i].url = url }
  IN IF hit # {}
     THEN LET i == CHOOSE j \in hit : \A k \in hit : j <= k
          IN [feeds |-> [t EXCEPT ![i].name = PyOr(t[i].name, name), ![i].slug = PyOr(t[i].slug, slug)],
              id |-> i]
     ELSE [feeds |-> Append(t, [url |-> url, name |-> name, slug |-> slug]), id |-> Len(t) + 1]

NoUpsert == [url |-> NULL, name |-> NULL, slug |-> NULL, id |-> 0]

\* id of the row find_episode returns, 0 for None
find_episode(s, feed_id, guid, audio_url) ==
  LET byGuid == { i \in Ids(s) : s[i].feed = feed_id /\ s[i].guid = guid }
      byAudio == { i \in Ids(s) : s[i].feed = feed_id /\ s[i].audio = audio_url }
  IN IF guid \notin Falsy /\ byGuid # {} THEN CHOOSE i \in byGuid : TRUE
     ELSE IF audio_url \notin Falsy /\ byAudio # {} THEN CHOOSE i \in byAudio : TRUE
     ELSE 0

\* INSERT OR IGNORE under UNIQUE(feed_id, guid), UNIQUE(feed_id, audio_url);
\* a NULL key never conflicts
insert_episode(s, row) ==
  IF \E i \in Ids(s) : /\ s[i].feed = row.feed
                       /\ \/ (row.guid # NULL /\ s[i].guid = row.guid)
                          \/ (row.audio # NULL /\ s[i].audio = row.audio)
  THEN s
  ELSE Append(s, row)

NewRow(feed_id, e) == [feed |-> feed_id, guid |-> e.guid, audio |-> e.audio, title |-> e.title,
                       pub_date |-> entry_pubdate(e), status |-> "new", error |-> NoMsg]

\* the episode directory: feed_dir / "<pubdate>_<safe_name(title)>"
PathOf(row) == <<row.feed, row.pub_date, row.title>>

Exists(f, row, kind) == <<PathOf(row), kind>> \in f

ArtifactsOf(f, row) == { k \in Kinds : Exists(f, row, k) }

\* a cap that counts every row, whatever its status
RECURSIVE SelectFirstRows(_, _, _, _)
SelectFirstRows(s, rows, new_count, max_new) ==
  IF rows = <<>> \/ new_count >= max_new THEN <<>>
  ELSE <<Head(rows)>> \o SelectFirstRows(s, Tail(rows), new_count + 1, max_new)

RECURSIVE SelectCapped(_, _, _, _)
SelectCapped(s, rows, new_count, max_new) ==
  IF rows = <<>> THEN <<>>
  ELSE LET r == Head(rows)
       IN IF s[r].status = "new"
          THEN IF new_count >= max_new
               THEN SelectCapped(s, Tail(rows), new_count, max_new)
               ELSE <<r>> \o SelectCapped(s, Tail(rows), new_count + 1, max_new)
          ELSE <<r>> \o SelectCapped(s, Tail(rows), new_count, max_new)

\* a selection that only resumes what was started
StartedStatuses == {"downloading", "downloaded", "transcribing", "transcribed", "analyzing",
                    "error_download", "error_transcribe", "error_insights"}

\* a selection that takes up finished episodes as well
IncompleteOrDoneStatuses == {"new", "downloading", "downloaded", "transcribing", "transcribed", "analyzing",
                             "done", "error_download", "error_transcribe", "error_insights"}

IncompleteStatuses == {"new", "downloading", "downloaded", "transcribing", "transcribed", "analyzing",
                       "error_download", "error_transcribe", "error_insights"}

\* a selection that lists the latest row first
RECURSIVE DescendingIds(_)
DescendingIds(S) == IF S = {} THEN <<>>
                    ELSE LET m == CHOOSE i \in S : \A j \in S : j <= i
                         IN <<m>> \o DescendingIds(S \ {m})

RECURSIVE AscendingIds(_)
AscendingIds(S) == IF S = {} THEN <<>>
                   ELSE LET m == CHOOSE i \in S : \A j \in S : i <= j
                        IN <<m>> \o AscendingIds(S \ {m})

\* rows are kept in insertion order, which is first_seen_at order
iter_new_or_incomplete(s, feed_id, max_new) ==
  LET rows == AscendingIds({ i \in Ids(s) : s[i].feed = feed_id /\ s[i].status \in IncompleteStatuses })
  IN IF max_new = NULL THEN rows ELSE SelectCapped(s, rows, 0, CapOf(max_new))

\* "existing = self.db.find_episode(feed_id, guid, audio); if existing: continue"
IsKnown(s, feed_id, e) == e.audio # NULL /\ find_episode(s, feed_id, e.guid, e.audio) # 0

\* an ingestion without the lookup and without the UNIQUE constraints
IngestEntryNoDedup(s, feed_id, e, added_count, max_new) ==
  IF e.audio = NULL THEN <<s, added_count>>
  ELSE IF max_new # NULL /\ added_count >= CapOf(max_new) THEN <<s, added_count>>
  ELSE <<Append(s, NewRow(feed_id, e)), added_count + 1>>

\* an ingestion that puts a known entry's row back to "new"
IngestEntryResetsKnown(s, feed_id, e, added_count, max_new) ==
  IF e.audio = NULL THEN <<s, added_count>>
  ELSE IF e.audio # NULL /\ find_episode(s, feed_id, e.guid, e.audio) # 0
  THEN <<[s EXCEPT ![find_episode(s, feed_id, e.guid, e.audio)].status = "new"], added_count>>
  ELSE IF max_new # NULL /\ added_count >= CapOf(max_new) THEN <<s, added_count>>
  ELSE <<insert_episode(s, NewRow(feed_id, e)), added_count + 1>>

\* an ingestion that takes an entry without enclosure when it has a guid
IngestEntryWithoutAudio(s, feed_id, e, added_count, max_new) ==
  IF e.audio = NULL /\ e.guid \in Falsy THEN <<s, added_count>>
  ELSE IF find_episode(s, feed_id, e.guid, e.audio) # 0 THEN <<s, added_count>>
  ELSE IF max_new # NULL /\ added_count >= CapOf(max_new) THEN <<s, added_count>>
  ELSE <<insert_episode(s, NewRow(feed_id, e)), added_count + 1>>

\* one iteration of the ingestion loop body after the stop check:
\* skip without audio, skip if known, skip beyond the cap, else insert.
\* Returns <<store, added_count>>.
IngestEntry(s, feed_id, e, added_count, max_new) ==
  IF e.audio = NULL THEN <<s, added_count>>
  ELSE IF IsKnown(s, feed_id, e) THEN <<s, added_count>>
  ELSE IF max_new # NULL /\ added_count >= CapOf(max_new) THEN <<s, added_count>>
  ELSE <<insert_episode(s, NewRow(feed_id, e)), added_count + 1>>


\* ------------------------------------------------ parse_episode_selection
\* Texts are sequences of one-character strings.
Digits == {"0", "1", "2", "3", "4", "5", "6", "7", "8", "9"}

DigitVal(c) == CASE c = "0" -> 0 [] c = "1" -> 1 [] c = "2" -> 2 [] c = "3" -> 3 [] c = "4" -> 4
                 [] c = "5" -> 5 [] c = "6" -> 6 [] c = "7" -> 7 [] c = "8" -> 8 [] OTHER -> 9

\* str.strip() for the blank
RECURSIVE LStrip(_)
LStrip(s) == IF s # <<>> /\ Head(s) = " " THEN LStrip(Tail(s)) ELSE s

RECURSIVE RStrip(_)
RStrip(s) == IF s # <<>> /\ s[Len(s)] = " " THEN RStrip(SubSeq(s, 1, Len(s) - 1)) ELSE s

Strip(s) == RStrip(LStrip(s))

\* str.lower()
Lower(s) == [i \in 1..Len(s) |-> IF s[i] = "A" THEN "a" ELSE IF s[i] = "L" THEN "l" ELSE s[i]]

\* str.split(c): the pieces between the separators, empty ones included
RECURSIVE Split(_, _)
Split(s, c) ==
  IF \A i \in 1..Len(s) : s[i] # c THEN <<s>>
  ELSE LET j == CHOOSE i \in 1..Len(s) : s[i] = c /\ \A k \in 1..(i - 1) : s[k] # c
       IN <<SubSeq(s, 1, j - 1)>> \o Split(SubSeq(s, j + 1, Len(s)), c)

\* int(text) succeeds: blanks around a non-empty run of digits (the texts
\* here hold no sign, which split("-") would have removed anyway)
IsInt(s) == Strip(s) # <<>> /\ \A i \in 1..Len(Strip(s)) : Strip(s)[i] \in Digits

RECURSIVE DigitsVal(_)
DigitsVal(s) == IF s = <<>> THEN 0 ELSE 10 * DigitsVal(SubSeq(s, 1, Len(s) - 1)) + DigitVal(s[Len(s)])

IntOf(s) == DigitsVal(Strip(s))

\* a conversion that keeps the number as typed
OneBased(num) == num

\* "indices.append(i - 1)", "indices.append(num - 1)"
ZeroBased(num) == num - 1

\* one turn of "for part in input_str.split(",")": the indices it appends,
\* or the ValueError it raises
ParsePart(piece) ==
  LET part == Strip(piece)
  IN IF part = <<>> THEN [err |-> NoMsg, add |-> {}]
     ELSE IF \E i \in 1..Len(part) : part[i] = "-"
     THEN LET range_parts == Split(part, "-")
          IN IF Len(range_parts) # 2 THEN [err |-> <<"Invalid range format">>, add |-> {}]
             ELSE IF ~(IsInt(range_parts[1]) /\ IsInt(range_parts[2]))
             THEN [err |-> <<"Invalid range numbers">>, add |-> {}]
             ELSE IF IntOf(range_parts[1]) > IntOf(range_parts[2])
             THEN [err |-> <<"Invalid range (start > end)">>, add |-> {}]
             ELSE [err |-> NoMsg,
                   add |-> { ZeroBased(i) : i \in IntOf(range_parts[1])..IntOf(range_parts[2]) }]
     ELSE IF ~IsInt(part) THEN [err |-> <<"Invalid number">>, add |-> {}]
     ELSE [err |-> NoMsg, add |-> {ZeroBased(IntOf(part))}]

\* the loop over the pieces: the first error ends it
RECURSIVE ParseParts(_, _)
ParseParts(pieces, indices) ==
  IF pieces = <<>> THEN [err |-> NoMsg, add |-> indices]
  ELSE LET r == ParsePart(Head(pieces))
       IN IF r.err # NoMsg THEN r ELSE ParseParts(Tail(pieces), indices \cup r.add)

RangeErrorMsg == <<"Episode number out of range">>

\* parse_episode_selection(input_str, max_index): ok with the list returned,
\* or the message of the ValueError
parse_episode_selection(input_str, max_index) ==
  LET s == Lower(Strip(input_str))
  IN IF s = <<>> THEN [ok |-> FALSE, indices |-> <<>>, err |-> <<"Empty input">>]
     ELSE IF s = <<"a", "l", "l">>
     THEN [ok |-> TRUE, indices |-> [i \in 1..max_index |-> i - 1], err |-> NoMsg]
     ELSE LET r == ParseParts(Split(s, ","), {})
          IN IF r.err # NoMsg THEN [ok |-> FALSE, indices |-> <<>>, err |-> r.err]
             ELSE IF \E idx \in r.add : idx < 0 \/ idx >= max_index
             THEN [ok |-> FALSE, indices |-> <<>>, err |-> RangeErrorMsg]
             ELSE [ok |-> TRUE, indices |-> AscendingIds(r.add), err |-> NoMsg]

NoSelection == [input |-> <<>>, n |-> 0, parsed |-> FALSE, ok |-> FALSE, indices |-> <<>>, err |-> NoMsg]

\* ------------------------------------------------------- pipeline helpers
\* gates as a faulty pipeline could have them: always open, never open for
\* the insights stage, reopened by a stored "error"
AlwaysStage(f, row, kind) == TRUE

NoInsightsStage(f, row, kind) == kind # "insights" /\ ~Exists(f, row, kind)

StatusGatedStage(f, row, kind) == ~Exists(f, row, kind) \/ row.status = "error"

\* "if not <artifact>.exists()": the gate in front of each stage
NeedsStage(f, row, kind) == ~Exists(f, row, kind)

\* a retry loop that gives up one attempt early
ExhaustedEarly(att) == att >= max_retries - 1

\* "for attempt in range(1, retries + 1)": no attempt is left after this one
Exhausted(att) == att >= max_retries

\* an episode loop that does not look at the stop flag
MayBeginIgnoringStop(st, q) == q # <<>>

\* "for ep in episodes: if self._stop: break"
MayBeginEpisode(st, q) == ~st /\ q # <<>>

\* a handler that gives up the whole pass
AbortPassAfterError(ix) == NumFeeds + 1

\* poll_once / populate_all_episodes: "except Exception: log", then the
\* for loop takes the next configured feed
NextFeedAfterError(ix) == ix + 1

\* a loop that never looks at the flag
KeepsRunningAlways(st) == TRUE

\* run_loop: "while not self._stop", "if self._stop: break"
KeepsRunning(st) == ~st

\* "for feed_cfg in self.cfg.feeds: if self._stop: break"
MayPollFeed(st, ix) == ~st /\ ix <= NumFeeds

\* a retry loop that waits the same time after every failure
ConstantWait(att) == retry_backoff_seconds

\* "time.sleep(backoff * attempt)" in the except branch of the retry loop
BackoffWait(att) == retry_backoff_seconds * att

\* outcomes of the external world
DownloadErrors == {"timeout", "http500"}

\* one attempt: the request fails before the body (http500), the stream
\* breaks (timeout), or the body ends after `written` bytes with a
\* Content-Length of `total` (0: no header)
DownloadOutcomes == [err : {"none"} \cup DownloadErrors, total : 0..MaxBytes, written : 0..MaxBytes]

\* a download that does not compare the byte count
SizeUnchecked(total, written) == TRUE

\* "if total and written != total: raise IOError(Size mismatch)"
AttemptSucceeds(total, written) == ~(total # 0 /\ written # total)

\* temp_dir / (dest.name + ".part"): one name per episode title
TempName(row) == row.title

\* a stage that trusts the exit status alone
ExitOnlyVerdict(exit, exists) == IF exit # 0 THEN "exit" ELSE "ok"

\* run_cmd / subprocess.run raise on a non-zero exit; then
\* "if not <output>.exists(): raise"
ToolVerdict(exit, exists) == IF exit # 0 THEN "exit" ELSE IF ~exists THEN "nofile" ELSE "ok"

ToolOutcomes == [exit : {0, 1}, made : BOOLEAN]

DownloadFailedMsg(last) == <<"Failed to download after", "max_retries", "attempts:", last>>

ToolFailedMsg(runner, stage) == IF runner = "watcher" THEN <<"Command failed", stage>> ELSE <<stage, "failed">>

NoFileMsg(stage) == <<stage, "did not produce expected file">>

NoInv == [ep |-> 0, runner |-> "none", startStatus |-> NULL, startFiles |-> {}, dl |-> 0, fails |-> 0,
          lastFail |-> NULL, dlOk |-> FALSE, sawDownloaded |-> FALSE, tr |-> 0, trOut |-> "none",
          ins |-> 0, insOut |-> "none", raised |-> NoMsg, result |-> "none", wrote |-> {}, cb |-> {},
          waits |-> <<>>, missing |-> 0]

\* bookkeeping: a status was written; the status callback was called.
\* EpisodeProcessor gets a callback from the interactive program, the
\* Watcher has none.
Wrote(i, status) == [i EXCEPT !.wrote = @ \cup {status}]

Called(i, stage) == IF i.runner = "tui" THEN [i EXCEPT !.cb = @ \cup {stage}] ELSE i

StartInv(ep, runner, s, f) == [NoInv EXCEPT !.ep = ep, !.runner = runner, !.startStatus = s[ep].status,
                                           !.startFiles = ArtifactsOf(f, s[ep]), !.result = "running"]

\* the bookkeeping carried from one feed to the next: what was selected and
\* not begun
Carried(p) == [p EXCEPT !.selected = p.selected \ p.begun, !.begun = {}, !.known = FALSE]

\* bookkeeping of one pass: episodes selected and begun; for the feed being
\* visited the store size at the fetch (base), the document (doc), the
\* entries inserted (admitted) and whether the fetch answered 304 (nm); the
\* feeds visited so far (polled) and those whose visit raised (raised)
NoPass == [selected |-> {}, begun |-> {}, known |-> FALSE, stopped |-> FALSE, ended |-> FALSE,
           base |-> 0, doc |-> {}, admitted |-> {}, nm |-> FALSE, polled |-> <<>>, raised |-> {}]

\* The interactive program: the view shown (current_view), the processing
\* mode, the worker threads alive, the bulk list still to visit (ids) of the
\* list confirmed (order), the completed count; bookkeeping of what the
\* bulk loop submitted, skipped and saw fail, of a call of a partial-mode
\* method (call), of the place the worker was at when the operator
\* interrupted (interruptedAt), and the summary shown.
NoCall == [ep |-> 0, result |-> "none"]

NoSummary == [completed |-> 0, skipped |-> 0]

NoBulk == [active |-> FALSE, ids |-> <<>>, all |-> {}, submitted |-> {}, skipped |-> {}, completed |-> 0,
           ended |-> FALSE, mode |-> NULL, order |-> <<>>, failed |-> 0, view |-> "none", workers |-> 0,
           call |-> NoCall, interruptedAt |-> NULL, shown |-> NoSummary, foreign |-> FALSE]

\* the program shows the episode list and waits for a key
AtEpisodeList == [NoBulk EXCEPT !.view = "episode_list"]

\* parts: the names of the .part files present in temp_dir; short: the final
\* audio paths whose file was moved there with a byte count other than the
\* reported content length
\* feeds: the feeds table, in id order; upserted: the last upsert_feed call
\* and the id it returned.  Episode rows name their feed by its place in the
\* configuration, which stands for its URL; the table itself is followed in
\* FeedsSpec.  selection: the text typed at the episode list, the number of
\* listed episodes and what parse_episode_selection made of them.
VARIABLES store, files, stop, op, pc, feedIx, pending, added, queue, cur, attempt, inv, pass, bulk,
          maxNew, tick, runs, parts, short, feeds, upserted, selection

vars == <<store, files, stop, op, pc, feedIx, pending, added, queue, cur, attempt, inv, pass, bulk,
          maxNew, tick, runs, parts, short, feeds, upserted, selection>>

Init == /\ store = <<>>
        /\ files = {}
        /\ stop = FALSE
        /\ op = "none"
        /\ pc = "idle"
        /\ feedIx = 0
        /\ pending = <<>>
        /\ added = 0
        /\ queue = <<>>
        /\ cur = 0
        /\ attempt = 0
        /\ inv = NoInv
        /\ pass = NoPass
        /\ bulk = NoBulk
        /\ maxNew \in MaxNewValues
        /\ tick = 0
        /\ runs = 0
        /\ parts = {}
        /\ short = {}
        /\ feeds = <<>>
        /\ upserted = NoUpsert
        /\ selection = NoSelection

Runner == IF op \in {"poll", "run"} THEN "watcher" ELSE "tui"

StagePcs == {"download", "dl_attempt", "transcribe", "tr_run", "insights", "in_run"}

\* --------------------------------------------------- Watcher: poll passes
\* main(): "run" calls run_loop(), which calls poll_once() pass after pass.
\* Programs and passes start while fewer than MaxRuns episodes have been
\* taken up (runs).
StartWatcher(cmd) == /\ pc = "idle"
                     /\ runs < MaxRuns
                     /\ op' = cmd
                     /\ stop' = FALSE
                     /\ feedIx' = 1
                     /\ pc' = "feed_head"
                     /\ pass' = NoPass
                     /\ inv' = NoInv
                     /\ bulk' = NoBulk
                     /\ UNCHANGED <<store, files, pending, added, queue, cur, attempt, maxNew, selection, feeds, upserted, parts, short, tick, runs>>

\* Watcher.stop: the SIGINT/SIGTERM handler run_loop installs
Stop == /\ op = "run"
        /\ ~stop
        /\ stop' = TRUE
        /\ pass' = [pass EXCEPT !.stopped = TRUE]
        /\ UNCHANGED <<store, files, op, pc, feedIx, pending, added, queue, cur, attempt, inv, bulk,
                       maxNew, selection, feeds, upserted, parts, short, tick, runs>>

\* poll_once's loop is left: feeds exhausted or stop seen at the loop head.
\* run_loop then breaks on the flag (the process exits) or starts sleeping.
PassEnd == /\ pc = "feed_head"
           /\ ~MayPollFeed(stop, feedIx)
           /\ inv' = NoInv
           /\ pass' = [Carried(pass) EXCEPT !.ended = TRUE, !.nm = FALSE]
           /\ feedIx' = 0
           /\ stop' = FALSE
           /\ IF ~KeepsRunning(stop)
              THEN pc' = "idle" /\ op' = "none"
              ELSE pc' = "sleep" /\ op' = op
           /\ UNCHANGED <<store, files, pending, added, queue, cur, attempt, bulk, maxNew, selection, feeds, upserted, parts, short, tick, runs>>

\* run_loop: "for _ in range(interval * 60): if self._stop: break; time.sleep(1)"
SleepTick == /\ pc = "sleep"
             /\ ~stop
             /\ tick < SleepTicks
             /\ tick' = tick + 1
             /\ UNCHANGED <<store, files, stop, op, pc, feedIx, pending, added, queue, cur, attempt, inv,
                            pass, bulk, maxNew, selection, feeds, upserted, parts, short, runs>>

\* run_loop: the sleep is over or was cut short; "while not self._stop"
\* returns on the flag or starts the next pass
SleepEnd == /\ pc = "sleep"
            /\ tick' = 0
            /\ stop' = FALSE
            /\ IF ~KeepsRunning(stop)
               THEN /\ pc' = "idle" /\ op' = "none"
                    /\ UNCHANGED <<feedIx, pass>>
               ELSE /\ (tick = SleepTicks \/ stop)
                    /\ runs < MaxRuns
                    /\ pc' = "feed_head" /\ op' = op
                    /\ feedIx' = 1
                    /\ pass' = NoPass
            /\ UNCHANGED <<store, files, pending, added, queue, cur, attempt, inv, bulk, maxNew, selection, feeds, upserted, parts, short, runs>>

\* _process_feed, 304 Not Modified: no ingestion, pending episodes selected
Fetch304 == /\ pc = "feed_head"
            /\ inv' = NoInv
            /\ MayPollFeed(stop, feedIx)
            /\ queue' = iter_new_or_incomplete(store, feedIx, maxNew)
            /\ pass' = [Carried(pass) EXCEPT !.selected = @ \cup { queue'[i] : i \in 1..Len(queue') },
                                             !.nm = TRUE, !.base = Len(store), !.polled = Append(@, feedIx)]
            /\ pc' = "ep_head"
            /\ UNCHANGED <<store, files, stop, op, feedIx, pending, added, cur, attempt, bulk,
                           maxNew, selection, feeds, upserted, parts, short, tick, runs>>

\* _process_feed raises before ingesting; poll_once logs it and goes on
FetchError == /\ pc = "feed_head"
              /\ inv' = NoInv
              /\ MayPollFeed(stop, feedIx)
              /\ pass' = [Carried(pass) EXCEPT !.nm = FALSE, !.polled = Append(@, feedIx),
                                               !.raised = @ \cup {feedIx}]
              /\ feedIx' = NextFeedAfterError(feedIx)
              /\ UNCHANGED <<store, files, stop, op, pc, pending, added, queue, cur, attempt, bulk,
                             maxNew, selection, feeds, upserted, parts, short, tick, runs>>

\* _process_feed, a document arrives: validators stored, entries sorted
\* newest first; an empty document returns at once
FetchDoc == /\ pc = "feed_head"
            /\ inv' = NoInv
            /\ MayPollFeed(stop, feedIx)
            /\ \E D \in Docs(feedIx) :
                 /\ pass' = [Carried(pass) EXCEPT !.nm = FALSE, !.base = Len(store),
                                                  !.polled = Append(@, feedIx), !.doc = D, !.admitted = {}]
                 /\ IF D = {}
                    THEN /\ feedIx' = feedIx + 1
                         /\ UNCHANGED <<pc, pending, added>>
                    ELSE /\ pending' = SortNewestFirst(D)
                         /\ added' = 0
                         /\ pc' = "ingest"
                         /\ feedIx' = feedIx
            /\ UNCHANGED <<store, files, stop, op, queue, cur, attempt, bulk, maxNew, selection, feeds, upserted, parts, short, tick, runs>>

\* one turn of "for entry in entries: if self._stop: break ..."
IngestStep == /\ pc = "ingest"
              /\ pending # <<>>
              /\ ~stop
              /\ LET r == IngestEntry(store, feedIx, Head(pending), added, maxNew)
                 IN store' = r[1] /\ added' = r[2]
              /\ pending' = Tail(pending)
              /\ pass' = [pass EXCEPT !.known = @ \/ IsKnown(store, feedIx, Head(pending)),
                                      !.admitted = IF Len(store') > Len(store) THEN @ \cup {Head(pending)} ELSE @]
              /\ UNCHANGED <<files, stop, op, pc, feedIx, queue, cur, attempt, inv, bulk,
                             maxNew, selection, feeds, upserted, parts, short, tick, runs>>

\* the ingestion loop raises (the store, the file system, an entry field):
\* the inserts made so far stay, poll_once logs and goes on
IngestError == /\ pc = "ingest"
               /\ pending # <<>>
               /\ ~stop
               /\ pending' = <<>>
               /\ added' = 0
               /\ pass' = [pass EXCEPT !.raised = @ \cup {feedIx}, !.doc = {}, !.admitted = {}]
               /\ feedIx' = NextFeedAfterError(feedIx)
               /\ pc' = "feed_head"
               /\ UNCHANGED <<store, files, stop, op, queue, cur, attempt, inv, bulk, maxNew, selection, feeds, upserted, parts, short, tick, runs>>

\* the ingestion loop is over (or broken by stop): select what to process
Select == /\ pc = "ingest"
          /\ (pending = <<>> \/ stop)
          /\ queue' = iter_new_or_incomplete(store, feedIx, maxNew)
          /\ pass' = [pass EXCEPT !.selected = @ \cup { queue'[i] : i \in 1..Len(queue') },
                                  !.doc = {}, !.admitted = {}]
          /\ pending' = <<>>
          /\ added' = 0
          /\ pc' = "ep_head"
          /\ UNCHANGED <<store, files, stop, op, feedIx, cur, attempt, inv, bulk,
                         maxNew, selection, feeds, upserted, parts, short, tick, runs>>

\* "for ep in episodes: if self._stop: break; self._process_episode(ep)"
EpBegin == /\ pc = "ep_head"
           /\ MayBeginEpisode(stop, queue)
           /\ runs < MaxRuns
           /\ runs' = runs + 1
           /\ cur' = Head(queue)
           /\ queue' = Tail(queue)
           /\ inv' = StartInv(Head(queue), "watcher", store, files)
           /\ pass' = [pass EXCEPT !.begun = @ \cup {Head(queue)}]
           /\ pc' = "download"
           /\ UNCHANGED <<store, files, stop, op, feedIx, pending, added, attempt, bulk,
                          maxNew, selection, feeds, upserted, parts, short, tick>>

\* the episode loop of _process_feed is left; poll_once takes the next feed
FeedDone == /\ pc = "ep_head"
            /\ inv' = NoInv
            /\ ~MayBeginEpisode(stop, queue)
            /\ queue' = <<>>
            /\ feedIx' = feedIx + 1
            /\ pc' = "feed_head"
            /\ UNCHANGED <<store, files, stop, op, pending, added, cur, attempt, pass, bulk,
                           maxNew, selection, feeds, upserted, parts, short, tick, runs>>


\* --------------------------------------------------- the episode pipeline
\* the row snapshot process_single_episode / _process_episode loads once
Row == [store[cur] EXCEPT !.status = inv.startStatus]

AddFile(f, row, kind) == f \cup {<<PathOf(row), kind>>}

\* The worker thread is over.  thread.is_alive() turns false in the loop of
\* process_episode / process_bulk_episodes, which joins, keeps the result and
\* goes back to the episode list or to the next episode of the bulk; after
\* an interrupt nobody waits and the view stays what it was.
ThreadEnds(ok) ==
  IF bulk.interruptedAt # NULL
  THEN /\ pc' = "detached"
       /\ bulk' = [bulk EXCEPT !.workers = @ - 1]
  ELSE IF bulk.active
  THEN /\ pc' = "bulk_head"
       /\ bulk' = [bulk EXCEPT !.workers = @ - 1, !.completed = IF ok THEN @ + 1 ELSE @,
                                !.failed = IF ok THEN @ ELSE @ + 1]
  ELSE /\ pc' = "menu"
       /\ bulk' = [bulk EXCEPT !.workers = @ - 1, !.view = "episode_list"]

\* a handler that names the stage that failed in the status it writes
StageErrorStatus(p) ==
  IF p \in {"download", "dl_attempt"} THEN "error_download"
  ELSE IF p \in {"transcribe", "tr_run"} THEN "error_transcribe"
  ELSE "error_insights"

\* "except Exception as e: ... update_episode_status(episode_id, "error",
\* error_msg)": one status whatever the stage p that raised
FailureStatus(p) == "error"

\* The episode-processing boundary.  s is the store as the stages left it,
\* i the bookkeeping of this invocation.  EpisodeProcessor catches, writes
\* "error" and returns (False, msg); Watcher._process_episode has no handler:
\* the exception leaves _process_feed and is logged by poll_once.
Leave(s, i, ok, msg) ==
  /\ cur' = 0
  /\ IF Runner = "watcher"
     THEN /\ store' = s
          /\ inv' = [i EXCEPT !.raised = msg, !.result = IF ok THEN "ok" ELSE "propagated"]
          /\ bulk' = bulk
          /\ IF ok
             THEN pc' = "ep_head" /\ UNCHANGED <<queue, feedIx>>
             ELSE pc' = "feed_head" /\ queue' = <<>> /\ feedIx' = NextFeedAfterError(feedIx)
     ELSE /\ store' = IF ok THEN s ELSE update_episode_status(s, cur, FailureStatus(pc), msg)
          /\ inv' = [(IF ok THEN i ELSE Wrote(i, FailureStatus(pc))) EXCEPT !.raised = msg,
                                                                  !.result = IF ok THEN "ok" ELSE "fail"]
          /\ UNCHANGED <<queue, feedIx>>
          /\ ThreadEnds(ok)

\* "# Download": gate, status write, then the retry loop starts
DownloadGate ==
  /\ pc = "download"
  /\ LET i0 == Called(inv, "downloading")
     IN IF NeedsStage(files, Row, "audio")
        THEN /\ parts' = parts \ {TempName(Row)}
             /\ IF max_retries >= 1
                THEN /\ store' = update_episode_status(store, cur, "downloading", NoMsg)
                     /\ inv' = Wrote(i0, "downloading")
                     /\ attempt' = 1
                     /\ pc' = "dl_attempt"
                     /\ UNCHANGED <<cur, queue, feedIx, bulk>>
                ELSE /\ attempt' = attempt
                     /\ Leave(update_episode_status(store, cur, "downloading", NoMsg),
                              Wrote(i0, "downloading"), FALSE, DownloadFailedMsg("None"))
        ELSE /\ parts' = parts
             /\ store' = update_episode_status(store, cur, "downloaded", NoMsg)
             /\ inv' = Called(Wrote([i0 EXCEPT !.sawDownloaded = TRUE], "downloaded"), "transcribing")
             /\ pc' = "transcribe"
             /\ UNCHANGED <<attempt, cur, queue, feedIx, bulk>>
  /\ UNCHANGED <<files, stop, op, pending, added, pass, maxNew, selection, feeds, upserted, short, tick, runs>>

\* one attempt of _download_audio's loop; on success the caller writes
\* "downloaded"
DlAttempt ==
  /\ pc = "dl_attempt"
  /\ \E o \in DownloadOutcomes :
       IF o.err = "none" /\ AttemptSucceeds(o.total, o.written)
       THEN /\ files' = AddFile(files, Row, "audio")
            /\ parts' = parts \ {TempName(Row)}
            /\ short' = IF o.total # 0 /\ o.written # o.total THEN short \cup {PathOf(Row)} ELSE short
            /\ store' = update_episode_status(store, cur, "downloaded", NoMsg)
            /\ inv' = Called(Wrote([inv EXCEPT !.dl = @ + 1, !.dlOk = TRUE, !.sawDownloaded = TRUE],
                                   "downloaded"), "transcribing")
            /\ pc' = "transcribe"
            /\ attempt' = 0
            /\ UNCHANGED <<cur, queue, feedIx, bulk>>
       ELSE LET why == IF o.err # "none" THEN o.err ELSE "size_mismatch"
                i == [inv EXCEPT !.dl = @ + 1, !.fails = @ + 1, !.lastFail = why,
                                 !.waits = Append(@, BackoffWait(attempt))]
            IN /\ files' = files
               /\ short' = short
               /\ parts' = IF o.err = "http500" THEN parts ELSE parts \cup {TempName(Row)}
               /\ IF Exhausted(attempt)
                  THEN /\ attempt' = 0
                       /\ Leave(store, i, FALSE, DownloadFailedMsg(why))
                  ELSE /\ attempt' = attempt + 1
                       /\ inv' = i
                       /\ UNCHANGED <<store, pc, cur, queue, feedIx, bulk>>
  /\ UNCHANGED <<stop, op, pending, added, pass, maxNew, selection, feeds, upserted, tick, runs>>

\* "# Transcribe": gate and status write
TranscribeGate ==
  /\ pc = "transcribe"
  /\ IF NeedsStage(files, Row, "transcript")
     THEN /\ store' = update_episode_status(store, cur, "transcribing", NoMsg)
          /\ inv' = Wrote(inv, "transcribing")
          /\ pc' = "tr_run"
     ELSE /\ store' = update_episode_status(store, cur, "transcribed", NoMsg)
          /\ inv' = Called(Wrote(inv, "transcribed"), "analyzing")
          /\ pc' = "insights"
  /\ UNCHANGED <<files, stop, op, feedIx, pending, added, queue, cur, attempt, pass, bulk,
                 maxNew, selection, feeds, upserted, parts, short, tick, runs>>

\* _run_transcription and the existence check that follows it
TrRun ==
  /\ pc = "tr_run"
  /\ \E o \in ToolOutcomes :
       LET f == IF o.made THEN AddFile(files, Row, "transcript") ELSE files
           out == ToolVerdict(o.exit, Exists(f, Row, "transcript"))
           i == [inv EXCEPT !.tr = @ + 1, !.trOut = out]
       IN /\ files' = f
          /\ IF out = "exit" THEN Leave(store, i, FALSE, ToolFailedMsg(Runner, "Transcription"))
             ELSE IF out = "nofile" THEN Leave(store, i, FALSE, NoFileMsg("Transcription"))
             ELSE /\ store' = update_episode_status(store, cur, "transcribed", NoMsg)
                  /\ inv' = Called(Wrote(i, "transcribed"), "analyzing")
                  /\ pc' = "insights"
                  /\ UNCHANGED <<cur, queue, feedIx, bulk>>
  /\ UNCHANGED <<stop, op, pending, added, attempt, pass, maxNew, selection, feeds, upserted, parts, short, tick, runs>>

\* "# Insights": gate and status write; with the file present the episode
\* is done at once
InsightsGate ==
  /\ pc = "insights"
  /\ IF NeedsStage(files, Row, "insights")
     THEN /\ store' = update_episode_status(store, cur, "analyzing", NoMsg)
          /\ inv' = Wrote(inv, "analyzing")
          /\ pc' = "in_run"
          /\ UNCHANGED <<cur, queue, feedIx, bulk>>
     ELSE Leave(update_episode_status(store, cur, "done", NoMsg), Called(Wrote(inv, "done"), "done"), TRUE, NoMsg)
  /\ UNCHANGED <<files, stop, op, pending, added, attempt, pass, maxNew, selection, feeds, upserted, parts, short, tick, runs>>

\* _run_insights, the existence check, and the final "done"
InRun ==
  /\ pc = "in_run"
  /\ \E o \in ToolOutcomes :
       LET f == IF o.made THEN AddFile(files, Row, "insights") ELSE files
           out == ToolVerdict(o.exit, Exists(f, Row, "insights"))
           i == [inv EXCEPT !.ins = @ + 1, !.insOut = out]
       IN /\ files' = f
          /\ IF out = "exit" THEN Leave(store, i, FALSE, ToolFailedMsg(Runner, "Insights extraction"))
             ELSE IF out = "nofile" THEN Leave(store, i, FALSE, NoFileMsg("Insights extraction"))
             ELSE Leave(update_episode_status(store, cur, "done", NoMsg), Called(Wrote(i, "done"), "done"), TRUE, NoMsg)
  /\ UNCHANGED <<stop, op, pending, added, attempt, pass, maxNew, selection, feeds, upserted, parts, short, tick, runs>>

\* ------------------------------------------------ the interactive program
\* "CASE WHEN pub_date IS NOT NULL THEN pub_date ELSE '9999-99-99' END": the
\* key a row is ordered by; dates are day numbers, the text '9999-99-99'
\* compares above every ISO date
NullDateKey == 9999

\* a NULL pub_date (the column is nullable; dates are day numbers >= 1)
NoDate == 0

DateKey(row) == IF row.pub_date # NoDate THEN row.pub_date ELSE NullDateKey

\* get_episodes_paginated(feed_id, 0, None): ORDER BY the date key DESC,
\* first_seen_at DESC (rows are stored in first-seen order)
RECURSIVE ListingOrder(_, _)
ListingOrder(s, S) ==
  IF S = {} THEN <<>>
  ELSE LET m == CHOOSE i \in S : \A j \in S : \/ DateKey(s[j]) < DateKey(s[i])
                                              \/ (DateKey(s[j]) = DateKey(s[i]) /\ j <= i)
       IN <<m>> \o ListingOrder(s, S \ {m})

RECURSIVE IngestAll(_, _, _)
IngestAll(s, feed_id, entries) ==
  IF entries = <<>> THEN s
  ELSE IngestAll(IngestEntry(s, feed_id, Head(entries), 0, NULL)[1], feed_id, Tail(entries))

\* PodcastTUI.__init__: the program starts and populates every feed
StartTUI == /\ pc = "idle"
            /\ runs < MaxRuns
            /\ op' = "tui"
            /\ stop' = FALSE
            /\ feedIx' = 1
            /\ pc' = "pop_head"
            /\ inv' = NoInv
            /\ pass' = NoPass
            /\ bulk' = NoBulk
            /\ UNCHANGED <<store, files, pending, added, queue, cur, attempt, maxNew, selection, feeds, upserted, parts, short, tick, runs>>

\* populate_all_episodes, one feed: 304 or an exception skips the feed, a
\* document is ingested whole, without a cap
PopulateFeed ==
  /\ pc = "pop_head"
  /\ feedIx <= NumFeeds
  /\ \/ /\ UNCHANGED store
        /\ \/ /\ feedIx' = feedIx + 1
              /\ pass' = [pass EXCEPT !.polled = Append(@, feedIx)]
           \/ /\ feedIx' = NextFeedAfterError(feedIx)
              /\ pass' = [pass EXCEPT !.polled = Append(@, feedIx), !.raised = @ \cup {feedIx}]
     \/ \E D \in Docs(feedIx) :
          /\ store' = IngestAll(store, feedIx, SortNewestFirst(D))
          /\ feedIx' = feedIx + 1
          /\ pass' = [pass EXCEPT !.polled = Append(@, feedIx)]
  /\ UNCHANGED <<files, stop, op, pc, pending, added, queue, cur, attempt, inv, bulk,
                 maxNew, selection, feeds, upserted, parts, short, tick, runs>>

PopulateDone ==
  /\ pc = "pop_head"
  /\ feedIx > NumFeeds
  /\ pc' = "menu"
  /\ pass' = NoPass
  /\ bulk' = AtEpisodeList
  /\ UNCHANGED <<store, files, stop, op, feedIx, pending, added, queue, cur, attempt, inv,
                 maxNew, selection, feeds, upserted, parts, short, tick, runs>>

\* handle_action_selection: the mode a key of the action menu starts for an
\* episode of this status, NULL when the key is not accepted.  A mutant
\* menu accepts key "1" for insights whatever the status.
FullStatuses == {"new", "error", "downloading", "downloaded", "transcribing"}

InsightsForAnyStatus(status, key) ==
  IF key = "1" THEN "insights" ELSE NULL

ActionMode(status, key) ==
  IF status \in FullStatuses
  THEN IF key = "1" THEN "full" ELSE IF key = "2" THEN "transcribe" ELSE NULL
  ELSE IF status = "transcribed"
  THEN IF key = "1" THEN "insights" ELSE NULL
  ELSE NULL

\* handle_bulk_action_selection for the selected rows S: the mode and the
\* rows left out (bulk_skipped_episodes); mode NULL when the key is refused
BulkChoice(s, S, key) ==
  LET done == { i \in S : s[i].status = "done" }
      transcribed == { i \in S : s[i].status = "transcribed" }
      processable == (S \ done) \ transcribed
  IN IF key = "1"
     THEN IF processable # {} THEN [mode |-> "full", skipped |-> done]
          ELSE IF transcribed # {} THEN [mode |-> "insights", skipped |-> done]
          ELSE [mode |-> NULL, skipped |-> {}]
     ELSE IF key = "2" /\ processable # {} THEN [mode |-> "transcribe", skipped |-> done \cup transcribed]
     ELSE [mode |-> NULL, skipped |-> {}]

\* a bulk loop that skips nothing
NeverSkip(mode, status) == FALSE

\* process_bulk_episodes: "# Skip if not compatible with mode"
ShouldSkip(mode, status) ==
  \/ mode = "full" /\ status = "done"
  \/ mode = "transcribe" /\ status \in {"done", "transcribed"}
  \/ mode = "insights" /\ status # "transcribed"

\* where the worker starts: process_single_episode for the full mode;
\* process_transcribe_only and process_insights_only are called on an
\* EpisodeProcessor that defines neither
WorkerEntry(mode) == IF mode = "full" THEN "download" ELSE "no_method"

\* an interrupt handler that goes back to the episode list from every view
BackToListAlways(view) == "episode_list"

\* run(), "except KeyboardInterrupt": the menus go back to the episode list,
\* the episode list to the podcast list, and the processing views stay
\* (confirm_quit either ends the loop or not)
ViewAfterInterrupt(view) ==
  IF view \in {"action_menu", "bulk_action_menu", "bulk_confirm"} THEN "episode_list"
  ELSE IF view = "episode_list" THEN "podcast_list"
  ELSE view

\* an interrupt that takes the worker thread down with the waiting loop
WorkerKilled(p) == "detached"

\* KeyboardInterrupt is raised in the main thread only; the worker is a
\* non-daemon threading.Thread and stays where it is
WorkerAfterInterrupt(p) == p

\* handle_episode_selection + handle_action_selection + process_episode: one
\* episode that is not done is selected, a key of the action menu is
\* accepted, the view is "processing" and the worker thread is started
SelectSingle ==
  /\ op = "tui"
  /\ bulk.view = "episode_list"
  /\ runs < MaxRuns
  /\ runs' = runs + 1
  /\ \E id \in Ids(store) : \E key \in {"1", "2"} :
       LET mode == ActionMode(store[id].status, key)
       IN /\ store[id].status # "done"
          /\ mode # NULL
          /\ cur' = id
          /\ inv' = IF mode = "full" THEN StartInv(id, "tui", store, files) ELSE NoInv
          /\ bulk' = [NoBulk EXCEPT !.view = "processing", !.mode = mode, !.workers = bulk.workers + 1,
                                    !.call = IF mode = "full" THEN NoCall ELSE [ep |-> id, result |-> "running"]]
          /\ pc' = WorkerEntry(mode)
  /\ UNCHANGED <<store, files, stop, op, feedIx, pending, added, queue, attempt, pass,
                 maxNew, selection, feeds, upserted, parts, short, tick>>

\* handle_episode_selection + handle_bulk_action_selection + the skip
\* confirmation: two or more episodes of a feed are selected, a key is
\* accepted, the rows left out are dropped from the list, the view is
\* "bulk_processing"
SelectBulk ==
  /\ op = "tui"
  /\ bulk.view = "episode_list"
  /\ \E f \in Feeds : \E S \in SUBSET { i \in Ids(store) : store[i].feed = f } : \E key \in {"1", "2"} :
       /\ Cardinality(S) >= 2
       /\ LET c == BulkChoice(store, S, key)
              keep == S \ c.skipped
          IN /\ c.mode # NULL
             /\ bulk' = [NoBulk EXCEPT !.active = TRUE, !.ids = ListingOrder(store, keep),
                                       !.order = ListingOrder(store, keep), !.all = keep,
                                       !.mode = c.mode, !.view = "bulk_processing", !.workers = bulk.workers]
  /\ inv' = NoInv
  /\ pc' = "bulk_head"
  /\ UNCHANGED <<store, files, stop, op, feedIx, pending, added, queue, cur, attempt, pass,
                 maxNew, selection, feeds, upserted, parts, short, tick, runs>>

\* process_bulk_episodes, one turn of the loop: the row is read again, an
\* episode the mode does not take is passed over, for any other the worker
\* thread is started
BulkNext ==
  /\ pc = "bulk_head"
  /\ bulk.ids # <<>>
  /\ LET id == Head(bulk.ids)
         episode == get_episode_by_id(store, id).row
     IN IF ShouldSkip(bulk.mode, episode.status)
        THEN /\ bulk' = [bulk EXCEPT !.ids = Tail(@), !.skipped = @ \cup {id}, !.call = NoCall]
             /\ inv' = NoInv
             /\ UNCHANGED <<cur, pc, runs>>
        ELSE /\ bulk' = [bulk EXCEPT !.ids = Tail(@), !.submitted = @ \cup {id}, !.workers = @ + 1,
                                     !.call = IF bulk.mode = "full" THEN NoCall
                                              ELSE [ep |-> id, result |-> "running"]]
             /\ runs < MaxRuns
             /\ runs' = runs + 1
             /\ cur' = id
             /\ inv' = IF bulk.mode = "full" THEN StartInv(id, "tui", store, files) ELSE NoInv
             /\ pc' = WorkerEntry(bulk.mode)
  /\ UNCHANGED <<store, files, stop, op, feedIx, pending, added, queue, attempt, pass,
                 maxNew, selection, feeds, upserted, parts, short, tick>>

\* _show_bulk_complete_summary ("skipped = total - completed"),
\* _reset_bulk_state
BulkDone ==
  /\ pc = "bulk_head"
  /\ inv' = NoInv
  /\ bulk.ids = <<>>
  /\ bulk' = [bulk EXCEPT !.active = FALSE, !.ended = TRUE, !.view = "episode_list", !.call = NoCall,
                          !.shown = [completed |-> bulk.completed,
                                     skipped |-> Len(bulk.order) - bulk.completed]]
  /\ pc' = "menu"
  /\ UNCHANGED <<store, files, stop, op, feedIx, pending, added, queue, cur, attempt, pass,
                 maxNew, selection, feeds, upserted, parts, short, tick, runs>>

\* the worker calls process_transcribe_only or process_insights_only:
\* AttributeError in the thread, which ends; success stays False, nothing
\* is written
MissingMethod ==
  /\ pc = "no_method"
  /\ cur' = 0
  /\ inv' = NoInv
  /\ IF bulk.interruptedAt # NULL
     THEN /\ pc' = "detached"
          /\ bulk' = [bulk EXCEPT !.workers = @ - 1, !.call.result = "fail"]
     ELSE IF bulk.active
     THEN /\ pc' = "bulk_head"
          /\ bulk' = [bulk EXCEPT !.workers = @ - 1, !.failed = @ + 1, !.call.result = "fail"]
     ELSE /\ pc' = "menu"
          /\ bulk' = [bulk EXCEPT !.workers = @ - 1, !.view = "episode_list", !.call.result = "fail"]
  /\ UNCHANGED <<store, files, stop, op, feedIx, pending, added, queue, attempt, pass,
                 maxNew, selection, feeds, upserted, parts, short, tick, runs>>

\* Ctrl-C while process_episode / process_bulk_episodes waits: the
\* KeyboardInterrupt leaves the waiting loop and is handled in run(); the
\* rest of a bulk list is never visited
Interrupt ==
  /\ op = "tui"
  /\ bulk.interruptedAt = NULL
  /\ pc \in StagePcs \cup {"no_method", "bulk_head"}
  /\ bulk' = [bulk EXCEPT !.interruptedAt = pc, !.view = ViewAfterInterrupt(@)]
  /\ pc' = IF pc = "bulk_head" THEN "detached" ELSE WorkerAfterInterrupt(pc)
  /\ UNCHANGED <<store, files, stop, op, feedIx, pending, added, queue, cur, attempt, inv, pass,
                 maxNew, selection, feeds, upserted, parts, short, tick, runs>>

\* another process on the same data directory takes up an episode the bulk
\* has still to visit and leaves it done, with its artifacts, or in error
\* (once per bulk)
OtherProcess ==
  /\ pc = "bulk_head"
  /\ ~bulk.foreign
  /\ bulk' = [bulk EXCEPT !.foreign = TRUE]
  /\ \E k \in 1..Len(bulk.ids) : \E status \in {"done", "error"} :
       LET id == bulk.ids[k]
       IN /\ store[id].status # "done"
          /\ store' = update_episode_status(store, id, status, IF status = "error" THEN <<"failed">> ELSE NoMsg)
          /\ files' = IF status = "done" THEN files \cup { <<PathOf(store[id]), kind>> : kind \in Kinds }
                      ELSE files
  /\ inv' = NoInv
  /\ UNCHANGED <<stop, op, pc, feedIx, pending, added, queue, cur, attempt, pass,
                 maxNew, selection, feeds, upserted, parts, short, tick, runs>>

\* process_single_episode is called with an id the store does not hold (the
\* first free one): get_episode_by_id raises inside the try, the handler's
\* status write finds no row, (False, msg) is returned
ProcessUnknown ==
  /\ pc = "menu"
  /\ op = "tui"
  /\ LET id == Len(store) + 1
         r == get_episode_by_id(store, id)
     IN /\ ~r.ok
        /\ store' = update_episode_status(store, id, "error", r.err)
        /\ inv' = [NoInv EXCEPT !.missing = id, !.runner = "tui", !.raised = r.err, !.result = "fail"]
  /\ UNCHANGED <<files, stop, op, pc, feedIx, pending, added, queue, cur, attempt, pass, bulk,
                 maxNew, selection, feeds, upserted, parts, short, tick, runs>>

\* the run loop is left (the interpreter ends once no worker is alive)
Quit ==
  /\ pc \in {"menu", "detached"}
  /\ op = "tui"
  /\ inv' = NoInv
  /\ pc' = "idle"
  /\ op' = "none"
  /\ bulk' = NoBulk
  /\ feedIx' = 0
  /\ UNCHANGED <<store, files, stop, pending, added, queue, cur, attempt, pass,
                 maxNew, selection, feeds, upserted, parts, short, tick, runs>>

\* ------------------------------------------------------------ environment
\* the process is killed (SIGKILL, power loss, an uncaught
\* KeyboardInterrupt): store and files stay, everything in memory is gone
Crash ==
  /\ pc # "idle"
  /\ pc' = "idle"
  /\ op' = "none"
  /\ stop' = FALSE
  /\ feedIx' = 0
  /\ pending' = <<>>
  /\ added' = 0
  /\ queue' = <<>>
  /\ cur' = 0
  /\ attempt' = 0
  /\ tick' = 0
  /\ inv' = NoInv
  /\ bulk' = [bulk EXCEPT !.active = FALSE, !.ids = <<>>, !.view = "none", !.workers = 0,
                          !.interruptedAt = NULL, !.call = NoCall]
  /\ pass' = NoPass
  /\ parts' \in IF pc = "dl_attempt" THEN {parts, parts \cup {TempName(Row)}} ELSE {parts}
  /\ UNCHANGED <<store, files, maxNew, selection, feeds, upserted, short, runs>>

Next == \/ StartWatcher("run")
        \/ Stop
        \/ PassEnd
        \/ SleepTick
        \/ SleepEnd
        \/ Fetch304
        \/ FetchError
        \/ FetchDoc
        \/ IngestStep
        \/ IngestError
        \/ Select
        \/ EpBegin
        \/ FeedDone
        \/ DownloadGate
        \/ DlAttempt
        \/ TranscribeGate
        \/ TrRun
        \/ InsightsGate
        \/ InRun
        \/ StartTUI
        \/ PopulateFeed
        \/ PopulateDone
        \/ SelectSingle
        \/ SelectBulk
        \/ BulkNext
        \/ BulkDone
        \/ MissingMethod
        \/ Interrupt
        \/ ProcessUnknown
        \/ Quit
        \/ Crash

Spec == Init /\ [][Next]_vars

\* The interactive program at its episode list over a store left by earlier
\* runs: the rows of three entries, each new, transcribed (a run was killed
\* before the insights stage), done or in error, with the artifacts their
\* statuses stand for, and another process at work on the same store.
TuiStatuses == {"new", "transcribed", "done", "error"}

TuiEntries == { e \in Catalog : e.audio # NULL /\ e.guid # NULL /\ e.title = "t1" } \cup
              { e \in Catalog : e.audio # NULL /\ e.guid = NULL }

TuiRows == { [NewRow(e.feed, e) EXCEPT !.status = st] : e \in TuiEntries, st \in TuiStatuses }

TuiStores == { s \in [1..3 -> TuiRows] :
                 /\ s[1].feed = 1 /\ s[1].guid = "g1"
                 /\ s[2].feed = 1 /\ s[2].guid = NULL
                 /\ s[3].feed = 2 }

KindsAt(status) ==
  IF status = "done" THEN Kinds
  ELSE IF status \in {"transcribed", "analyzing"} THEN {"audio", "transcript"}
  ELSE IF status \in {"downloaded", "transcribing"} THEN {"audio"}
  ELSE {}

InitTui == /\ store \in TuiStores
           /\ files = UNION { { <<PathOf(store[i]), kind>> : kind \in KindsAt(store[i].status) } : i \in Ids(store) }
           /\ stop = FALSE
           /\ op = "tui"
           /\ pc = "menu"
           /\ feedIx = 0
           /\ pending = <<>>
           /\ added = 0
           /\ queue = <<>>
           /\ cur = 0
           /\ attempt = 0
           /\ inv = NoInv
           /\ pass = NoPass
           /\ bulk = AtEpisodeList
           /\ maxNew \in MaxNewValues
           /\ tick = 0
           /\ runs = 0
           /\ parts = {}
           /\ short = {}
           /\ feeds = <<>>
           /\ upserted = NoUpsert
           /\ selection = NoSelection

NextTui == \/ SelectSingle
           \/ SelectBulk
           \/ BulkNext
           \/ BulkDone
           \/ MissingMethod
           \/ Interrupt
           \/ OtherProcess
           \/ DownloadGate
           \/ DlAttempt
           \/ TranscribeGate
           \/ TrRun
           \/ InsightsGate
           \/ InRun

TuiSpec == InitTui /\ [][NextTui]_vars

\* The feeds table on its own: upsert_feed is called again and again with the
\* URLs of the configuration and any name and slug a caller can pass
\* (_process_feed passes the configured name and None on a 304, the title
\* and its safe_name otherwise).
FeedUrls == { <<"url", f>> : f \in Feeds }

FeedNames == {NULL, "", "n1", "n2"}

FeedSlugs == {NULL, "", "s1", "s2"}

UpsertFeed ==
  /\ \E url \in FeedUrls : \E name \in FeedNames : \E slug \in FeedSlugs :
       LET r == upsert_feed(feeds, url, name, slug)
       IN /\ feeds' = r.feeds
          /\ upserted' = [url |-> url, name |-> name, slug |-> slug, id |-> r.id]
  /\ UNCHANGED <<store, files, stop, op, pc, feedIx, pending, added, queue, cur, attempt, inv, pass, bulk,
                 maxNew, selection, tick, runs, parts, short>>

NextFeeds == UpsertFeed

FeedsSpec == Init /\ [][NextFeeds]_vars

\* The selection parser on its own: every text of up to MaxInput characters
\* of SelectionChars and the texts of SelectionExamples, typed at a list of up
\* to MaxCount episodes or of ten.
SelectionChars == {"0", "1", "2", ",", "-", " ", "a", "l", "A"}

SelectionExamples == { <<"1", ",", "3", "-", "5", ",", "8">>, <<"1", "1">>, <<" ", "A", "L", "L", " ">>,
                       <<"1", " ", "-", " ", "3", ",", "2", ",", "1", "0">>, <<"9", "-", "1", "2">>,
                       <<"3", ",", "1", "-", "0", "2", ",", ",", "3">> }

SelectionInputs == SelectionExamples \cup UNION { [1..k -> SelectionChars] : k \in 0..MaxInput }

SelectionCounts == (0..MaxCount) \cup {10}

InitParse == /\ store = <<>>
             /\ files = {}
             /\ stop = FALSE
             /\ op = "tui"
             /\ pc = "menu"
             /\ feedIx = 0
             /\ pending = <<>>
             /\ added = 0
             /\ queue = <<>>
             /\ cur = 0
             /\ attempt = 0
             /\ inv = NoInv
             /\ pass = NoPass
             /\ bulk = NoBulk
             /\ maxNew \in MaxNewValues
             /\ tick = 0
             /\ runs = 0
             /\ parts = {}
             /\ short = {}
             /\ feeds = <<>>
             /\ upserted = NoUpsert
             /\ \E input \in SelectionInputs : \E n \in SelectionCounts :
                  selection = [NoSelection EXCEPT !.input = input, !.n = n]

\* handle_episode_selection: "indices = parse_episode_selection(selection,
\* len(episodes))", a ValueError caught
ParseSelection ==
  /\ ~selection.parsed
  /\ LET r == parse_episode_selection(selection.input, selection.n)
     IN selection' = [selection EXCEPT !.parsed = TRUE, !.ok = r.ok, !.indices = r.indices, !.err = r.err]
  /\ UNCHANGED <<store, files, stop, op, pc, feedIx, pending, added, queue, cur, attempt, inv, pass, bulk,
                 maxNew, tick, runs, parts, short, feeds, upserted>>

NextParse == ParseSelection

ParseSpec == InitParse /\ [][NextParse]_vars

\* The selection of a poll pass on its own: the store holds up to MaxRows
\* rows in any statuses, as earlier passes and interactive runs can leave
\* them, max_new_per_feed is None, 0, 1 or 2, and _process_feed selects the
\* episodes of a feed.
CapValues == {NULL, "0", "1", "2"}

\* UNIQUE(feed_id, audio_url): the row at place i has an audio URL of its own
AudioNames == <<"a1", "a2", "a3", "a4">>

CapRows(i) == [feed : Feeds, guid : {NULL}, audio : {AudioNames[i]}, title : {"t1"}, pub_date : {1},
               status : Statuses, error : {NoMsg}]

RECURSIVE CapStoresOf(_)
CapStoresOf(n) == IF n = 0 THEN {<<>>}
                  ELSE { Append(s, row) : s \in CapStoresOf(n - 1), row \in CapRows(n) }

CapStores == UNION { CapStoresOf(n) : n \in 0..MaxRows }

InitCap == /\ store \in CapStores
           /\ files = {}
           /\ stop = FALSE
           /\ op = "poll"
           /\ pc = "feed_head"
           /\ feedIx = 0
           /\ pending = <<>>
           /\ added = 0
           /\ queue = <<>>
           /\ cur = 0
           /\ attempt = 0
           /\ inv = NoInv
           /\ pass = NoPass
           /\ bulk = NoBulk
           /\ maxNew \in CapValues
           /\ tick = 0
           /\ runs = 0
           /\ parts = {}
           /\ short = {}
           /\ feeds = <<>>
           /\ upserted = NoUpsert
           /\ selection = NoSelection

\* "episodes = self.db.iter_new_or_incomplete(feed_id,
\* self.cfg.runtime.max_new_per_feed)"
SelectForFeed ==
  /\ \E f \in Feeds :
       /\ feedIx' = f
       /\ queue' = iter_new_or_incomplete(store, f, maxNew)
  /\ UNCHANGED <<store, files, stop, op, pc, pending, added, cur, attempt, inv, pass, bulk,
                 maxNew, selection, feeds, upserted, parts, short, tick, runs>>

NextCap == SelectForFeed

CapSpec == InitCap /\ [][NextCap]_vars

\* The episode listing on its own: the store holds up to MaxRows rows as
\* insert_episode accepts them (pub_date is Optional), the operator opens a
\* feed's episode list and selects rows of it by position.
ListedDates == {NoDate, 1, 2}

ListedRows(i) == [feed : Feeds, guid : {NULL}, audio : {AudioNames[i]}, title : {"t1"}, pub_date : ListedDates,
                  status : {"new"}, error : {NoMsg}]

RECURSIVE ListedStoresOf(_)
ListedStoresOf(n) == IF n = 0 THEN {<<>>}
                     ELSE { Append(s, row) : s \in ListedStoresOf(n - 1), row \in ListedRows(n) }

ListedStores == UNION { ListedStoresOf(n) : n \in 0..MaxRows }

InitListing == /\ store \in ListedStores
               /\ files = {}
               /\ stop = FALSE
               /\ op = "tui"
               /\ pc = "menu"
               /\ feedIx = 0
               /\ pending = <<>>
               /\ added = 0
               /\ queue = <<>>
               /\ cur = 0
               /\ attempt = 0
               /\ inv = NoInv
               /\ pass = NoPass
               /\ bulk = NoBulk
               /\ maxNew \in MaxNewValues
               /\ tick = 0
               /\ runs = 0
               /\ parts = {}
               /\ short = {}
               /\ feeds = <<>>
               /\ upserted = NoUpsert
               /\ selection = NoSelection

\* the episode list of a feed is shown: queue holds the listed ids
ListEpisodes ==
  /\ pc = "menu"
  /\ \E f \in Feeds :
       /\ feedIx' = f
       /\ queue' = ListingOrder(store, { i \in Ids(store) : store[i].feed = f })
  /\ bulk' = NoBulk
  /\ UNCHANGED <<store, files, stop, op, pc, pending, added, cur, attempt, inv, pass,
                 maxNew, selection, feeds, upserted, parts, short, tick, runs>>

\* handle_episode_selection: "episodes = get_episodes_paginated(feed, 0,
\* None); selected_episodes = [episodes[i] for i in indices]" for a sorted
\* set of 0-based indices
PickEpisodes ==
  /\ pc = "menu"
  /\ feedIx # 0
  /\ LET episodes == ListingOrder(store, { i \in Ids(store) : store[i].feed = feedIx })
     IN \E I \in SUBSET (0..(Len(episodes) - 1)) :
          /\ I # {}
          /\ LET indices == AscendingIds(I)
             IN bulk' = [NoBulk EXCEPT !.ids = [k \in 1..Len(indices) |-> episodes[indices[k] + 1]],
                                       !.all = { episodes[i + 1] : i \in I }]
  /\ UNCHANGED <<store, files, stop, op, pc, feedIx, pending, added, queue, cur, attempt, inv, pass,
                 maxNew, selection, feeds, upserted, parts, short, tick, runs>>

NextListing == \/ ListEpisodes
               \/ PickEpisodes

ListingSpec == InitListing /\ [][NextListing]_vars

\* the "run" command alone, never killed, with every step of the running
\* process eventually taken: stages, downloads and tools terminate
WatcherStep == \/ PassEnd
               \/ SleepTick
               \/ SleepEnd
               \/ Fetch304
               \/ FetchError
               \/ FetchDoc
               \/ IngestStep
               \/ IngestError
               \/ Select
               \/ EpBegin
               \/ FeedDone
               \/ DownloadGate
               \/ DlAttempt
               \/ TranscribeGate
               \/ TrRun
               \/ InsightsGate
               \/ InRun

NextRun == \/ StartWatcher("run")
           \/ Stop
           \/ WatcherStep

RunSpec == Init /\ [][NextRun]_vars /\ WF_vars(WatcherStep)

\* the continuous loop from an empty store, never stopped and never killed,
\* with max_new_per_feed 1, 2 or None
ProgressCaps == {NULL, "1", "2"}

InitProgress == /\ store = <<>>
                /\ files = {}
                /\ stop = FALSE
                /\ op = "none"
                /\ pc = "idle"
                /\ feedIx = 0
                /\ pending = <<>>
                /\ added = 0
                /\ queue = <<>>
                /\ cur = 0
                /\ attempt = 0
                /\ inv = NoInv
                /\ pass = NoPass
                /\ bulk = NoBulk
                /\ maxNew \in ProgressCaps
                /\ tick = 0
                /\ runs = 0
                /\ parts = {}
                /\ short = {}
                /\ feeds = <<>>
                /\ upserted = NoUpsert
                /\ selection = NoSelection

NextProgress == \/ StartWatcher("run")
                \/ WatcherStep

ProgressSpec == InitProgress /\ [][NextProgress]_vars /\ WF_vars(WatcherStep)

TypeOK == /\ pc \in {"idle", "feed_head", "ingest", "ep_head", "sleep", "pop_head", "menu", "bulk_head", "no_method", "detached"}
                   \cup StagePcs
          /\ \A i \in Ids(store) : store[i].status \in Statuses


\* ------------------------------------------------------------- properties
Ended == inv.ep # 0 /\ inv.result # "running"

InvStatus == store[inv.ep].status

\* C1: when audio, transcript and insights files all exist at the start of a
\* full-processing invocation, the invocation makes no download attempt and
\* runs neither tool, and it ends with stored status done.
C1_IdempotentReentry ==
  (inv.ep # 0 /\ inv.startFiles = Kinds) =>
     /\ inv.dl = 0 /\ inv.tr = 0 /\ inv.ins = 0
     /\ (Ended => inv.result = "ok" /\ InvStatus = "done")

C1_Witness == Ended /\ inv.startFiles = Kinds /\ inv.startStatus # "done"

\* C2: with audio and transcript present, insights absent and the stored
\* status left at analyzing or error, full processing downloads nothing and
\* transcribes nothing, runs the insights command exactly once, and ends
\* with status done when that command exits zero and produces the file.
C2_ResumeAfterCrash ==
  (inv.ep # 0 /\ inv.startFiles = {"audio", "transcript"} /\ inv.startStatus \in {"analyzing", "error"}) =>
     /\ inv.dl = 0 /\ inv.tr = 0 /\ inv.ins <= 1
     /\ (Ended => inv.ins = 1 /\ (inv.insOut = "ok" => inv.result = "ok" /\ InvStatus = "done"))

C2_Witness == /\ Ended /\ inv.startFiles = {"audio", "transcript"}
              /\ inv.startStatus \in {"analyzing", "error"} /\ inv.insOut = "ok"

\* C3: the stages an invocation executes and the status it leaves are a
\* function of the artifacts present at its start and of the outcomes of the
\* download and the tools; the status stored at its start plays no part.
C3_GatedByArtifacts ==
  Ended =>
    LET sf == inv.startFiles
        needDl == "audio" \notin sf
        dlPass == ~needDl \/ inv.dlOk
        needTr == dlPass /\ "transcript" \notin sf
        trPass == dlPass /\ (~needTr \/ inv.trOut = "ok")
        needIn == trPass /\ "insights" \notin sf
        inPass == trPass /\ (~needIn \/ inv.insOut = "ok")
    IN /\ (inv.dl > 0) = needDl
       /\ (inv.tr > 0) = needTr
       /\ (inv.ins > 0) = needIn
       /\ InvStatus = IF inPass THEN "done"
                      ELSE IF inv.runner = "tui" THEN "error"
                      ELSE IF ~dlPass THEN "downloading"
                      ELSE IF ~trPass THEN "transcribing"
                      ELSE "analyzing"

C3_Witness == Ended /\ inv.startStatus = "error" /\ inv.startFiles = {"audio"} /\ inv.tr > 0

\* C4: whenever a stage raises, in automatic polling as well as in
\* interactive processing, the episode's stored status becomes error with
\* the exception message, and the caller gets (False, message).
C4_ErrorRecordedAtBoundary ==
  (inv.ep # 0 /\ inv.raised # NoMsg) =>
     /\ InvStatus = "error"
     /\ store[inv.ep].error = inv.raised
     /\ inv.result = "fail"

\* C5: a failing episode never aborts its siblings: a poll pass that was not
\* stopped has begun every episode it selected, and a finished bulk
\* submission has submitted (or skipped as done) every episode of its set.
C5_SiblingsStillProcessed ==
  /\ (pass.ended /\ ~pass.stopped) => pass.selected \subseteq pass.begun
  /\ bulk.ended => bulk.all \subseteq (bulk.submitted \cup bulk.skipped)

\* C6: per feed, no two episode rows share a non-null guid and no two share
\* a non-null audio URL.
C6_Dedup ==
  \A i, j \in Ids(store) :
     (i # j /\ store[i].feed = store[j].feed) =>
        /\ (store[i].guid = NULL \/ store[i].guid # store[j].guid)
        /\ (store[i].audio = NULL \/ store[i].audio # store[j].audio)

C6_Witness == pass.known /\ pc = "ingest" /\ Len(store) >= 2

\* C7: a download whose every attempt fails makes exactly max_retries
\* attempts and leaves stored status error with a message that contains the
\* last underlying failure.
C7_DownloadExhausted ==
  (Ended /\ inv.dl > 0 /\ ~inv.dlOk) =>
     /\ inv.dl = max_retries
     /\ InvStatus = "error"
     /\ \E k \in 1..Len(store[inv.ep].error) : store[inv.ep].error[k] = inv.lastFail

\* C8: a download that fails max_retries - 1 times and then succeeds has
\* made exactly max_retries attempts, none after the success; the audio file
\* is in place and the status written next is downloaded.  Fewer than
\* max_retries failures never end the download.
C8_RetryThenSuccess ==
  inv.ep # 0 =>
     /\ (inv.dlOk /\ inv.fails = max_retries - 1) =>
           inv.dl = max_retries /\ Exists(files, store[inv.ep], "audio") /\ inv.sawDownloaded
     /\ inv.dlOk => inv.dl = inv.fails + 1
     /\ (inv.dlOk /\ pc = "transcribe") => InvStatus = "downloaded"
     /\ (inv.dl > 0 /\ inv.fails < max_retries) => (inv.dlOk \/ inv.result = "running")

C8_Witness == inv.ep # 0 /\ inv.dlOk /\ inv.fails = max_retries - 1 /\ pc = "transcribe"

\* C9: an episode whose stored status is error is among the episodes a poll
\* pass selects for its feed.
C9_ErrorIsSelected ==
  (pc = "ep_head" /\ feedIx \in Feeds) =>
     \A i \in Ids(store) : (store[i].feed = feedIx /\ store[i].status = "error") => i \in pass.selected

\* C10: the stop request only sets the flag; with the flag set no episode
\* begins and no feed is fetched, and a stage in progress still runs to its
\* end (success or failure) before the flag is looked at.
BeginsEpisode == cur = 0 /\ cur' # 0

FetchesFeed == /\ pc = "feed_head"
               /\ \/ pc' \in {"ingest", "ep_head"}
                  \/ (pc' = "feed_head" /\ feedIx' = feedIx + 1)

Killed == pc' = "idle" /\ inv' = NoInv

C10_CooperativeStop ==
  [][ /\ (~stop /\ stop') => (pc' = pc /\ cur' = cur /\ store' = store /\ files' = files /\ queue' = queue)
      /\ stop => (~BeginsEpisode /\ ~FetchesFeed)
      /\ (stop /\ pc \in StagePcs /\ ~Killed) => (pc' \in StagePcs \/ inv'.result \in {"ok", "fail", "propagated"}) ]_vars

C10_Witness == stop /\ pc = "ep_head" /\ queue # <<>>

\* C11: once the stop flag is set, during a pass or during the sleep, and
\* with every stage in flight terminating, run_loop returns; and no poll
\* pass starts while the flag is set.
StartsPass == pc \in {"sleep", "idle"} /\ pc' = "feed_head"

C11_StopTerminates ==
  /\ stop ~> (pc = "idle" /\ op = "none")
  /\ [][stop => ~StartsPass]_vars

C11_Witness == pass.stopped /\ pc = "idle" /\ op = "none"

\* C12: within a pass every insertion of an episode of a feed precedes the
\* first stage of any episode of that feed, and the feed's episodes are then
\* begun in ascending first-seen order (rows are kept in first-seen order).
InsertsEpisode == Len(store') > Len(store)

C12_IngestThenAscending ==
  /\ [][(InsertsEpisode /\ Runner = "watcher") =>
          (pc = "ingest" /\ \A i \in pass.begun : store[i].feed # feedIx)]_vars
  /\ []((Runner = "watcher" /\ pc \in {"ep_head"} \cup StagePcs) =>
          /\ \A k \in 1..(Len(queue) - 1) : queue[k] < queue[k + 1]
          /\ \A k \in 1..Len(queue) : store[queue[k]].feed = feedIx /\ cur < queue[k]
          /\ \A i \in pass.begun : store[i].feed = feedIx => i <= cur \/ (cur = 0 /\ \A k \in 1..Len(queue) : i < queue[k]))

C12_Witness == /\ Runner = "watcher" /\ pc \in StagePcs /\ queue # <<>>
               /\ Len(store) > pass.base /\ ~pass.nm

\* C13: with max_new_per_feed = k an ingestion inserts at most k episodes of
\* the feed, and every inserted entry is at least as new as every entry of
\* the document that has audio, was unknown at the fetch and was left out;
\* fewer than k are inserted only when nothing insertable is left.
KnownAtFetch(e) == IsKnown(SubSeq(store, 1, pass.base), feedIx, e)

Eligible == { e \in pass.doc : e.audio # NULL /\ ~KnownAtFetch(e) }

C13_CapAdmitsNewest ==
  (pc = "ingest" /\ maxNew # NULL) =>
     /\ Cardinality(pass.admitted) <= CapOf(maxNew)
     /\ Len(store) = pass.base + Cardinality(pass.admitted)
     /\ \A a \in pass.admitted : \A e \in Eligible \ pass.admitted : a.dt >= e.dt
     /\ (pending = <<>> /\ Cardinality(pass.admitted) < CapOf(maxNew)) =>
           \A e \in Eligible \ pass.admitted : IsKnown(store, feedIx, e)

C13_Witness == /\ pc = "ingest" /\ pending = <<>> /\ pass.admitted # {}
               /\ \E e \in Eligible \ pass.admitted : ~IsKnown(store, feedIx, e)

\* C14: a feed that answers 304 gets no insertion in that pass, and every
\* known episode of it that the pass found pending has been begun when the
\* pass, not stopped, leaves the feed.
C14_NotModifiedStillProcesses ==
  /\ (pass.nm /\ Runner = "watcher") => Len(store) = pass.base
  /\ (pc = "feed_head" /\ pass.nm /\ ~pass.stopped) =>
        \A i \in pass.selected : store[i].feed = feedIx - 1 => i \in pass.begun

\* C15: an exception while ingesting a feed costs that feed only: the feeds
\* are visited one by one in configuration order, in a poll pass and in the
\* populate run, and a pass that was not stopped has visited them all.
C15_FeedErrorConfined ==
  /\ pc \in {"feed_head", "pop_head"} =>
        /\ Len(pass.polled) = feedIx - 1
        /\ \A k \in 1..Len(pass.polled) : pass.polled[k] = k
  /\ (pass.ended /\ ~pass.stopped) => Len(pass.polled) = NumFeeds

C15_Witness == pass.ended /\ ~pass.stopped /\ 1 \in pass.raised /\ Len(pass.polled) = NumFeeds

\* C16: while a stage's work runs the store holds that stage's in-progress
\* status, and when the next stage is entered it holds the previous stage's
\* completed status; every status a stage pass-through leaves is one a poll
\* pass picks up again.
StageStatus == [dl_attempt |-> "downloading", transcribe |-> "downloaded", tr_run |-> "transcribing",
                insights |-> "transcribed", in_run |-> "analyzing"]

C16_WriteThrough ==
  (cur # 0 /\ pc \in DOMAIN StageStatus) =>
     /\ store[cur].status = StageStatus[pc]
     /\ store[cur].status \in IncompleteStatuses

C16_Witness == cur # 0 /\ pc = "in_run" /\ inv.dlOk /\ inv.tr = 1

\* C17: every status an interactive invocation wrote (downloading,
\* downloaded, transcribing, transcribed, analyzing, done, error) has been
\* passed to the status callback by the time the invocation is over.
C17_CallbackAfterEveryWrite ==
  (Ended /\ inv.runner = "tui") => inv.wrote \subseteq inv.cb

\* C18: a tool run after which the expected file does not exist, whatever
\* its exit status, fails the stage: the invocation goes no further, does
\* not succeed, and the status never becomes transcribed (resp. done).
C18_ToolNeedsExitZeroAndFile ==
  inv.ep # 0 =>
     /\ (inv.tr > 0 /\ ~Exists(files, store[inv.ep], "transcript")) =>
           /\ Ended /\ inv.result # "ok" /\ inv.ins = 0
           /\ InvStatus \notin {"transcribed", "analyzing", "done"}
     /\ (inv.ins > 0 /\ ~Exists(files, store[inv.ep], "insights")) =>
           /\ Ended /\ inv.result # "ok"
           /\ InvStatus # "done"
     /\ (inv.trOut = "nofile" \/ inv.insOut = "nofile") => inv.result # "ok"

C18_Witness == Ended /\ inv.trOut = "nofile" /\ inv.runner = "tui" /\ InvStatus = "error"

\* C19: an invocation runs each tool at most once, and after a tool failed
\* its output file is absent.
C19_FailedToolLeavesNoFile ==
  inv.ep # 0 =>
     /\ inv.tr <= 1 /\ inv.ins <= 1
     /\ (Ended /\ inv.trOut \in {"exit", "nofile"}) => ~Exists(files, store[inv.ep], "transcript")
     /\ (Ended /\ inv.insOut \in {"exit", "nofile"}) => ~Exists(files, store[inv.ep], "insights")

\* C20: no final audio path holds a file whose byte count differed from a
\* reported content length; a failing attempt leaves the final paths alone;
\* an audio file appears only in the step of a succeeding attempt, which
\* moves the .part file away.
NewAudio == { x \in files' \ files : x[2] = "audio" }

C20_NoPartialAtFinalPath ==
  /\ [](short = {})
  /\ [][/\ (pc = "dl_attempt" /\ inv'.fails > inv.fails) => files' = files
        /\ NewAudio # {} => /\ pc = "dl_attempt" /\ inv'.dlOk /\ ~inv.dlOk
                            /\ NewAudio = {<<PathOf(Row), "audio">>}
                            /\ TempName(Row) \notin parts']_vars

C20_Witness == inv.ep # 0 /\ inv.dlOk /\ inv.lastFail = "size_mismatch" /\ parts = {}


RECURSIVE SumOf(_)
SumOf(q) == IF q = <<>> THEN 0 ELSE Head(q) + SumOf(Tail(q))

\* C30: in one download invocation the wait after the k-th failed attempt is
\* retry_backoff_seconds * k, and a download that succeeded on attempt n has
\* waited retry_backoff_seconds * n(n-1)/2 in total.
C30_LinearBackoff ==
  /\ \A k \in 1..Len(inv.waits) : inv.waits[k] = retry_backoff_seconds * k
  /\ Len(inv.waits) = inv.fails
  /\ inv.dlOk => 2 * SumOf(inv.waits) = retry_backoff_seconds * inv.dl * (inv.dl - 1)

\* a download succeeded on its third attempt
C30_Witness == inv.dlOk /\ inv.dl = 3 /\ SumOf(inv.waits) = 15


\* the arguments a lookup is asked with: unset, empty, stored and unknown
LookupGuids == {NULL, "", "g1", "g5", "g9"}

LookupAudios == {NULL, "", "a1", "a2", "a9"}

GuidRows(f, g) == { i \in Ids(store) : store[i].feed = f /\ g \notin Falsy /\ store[i].guid = g }

AudioRows(f, a) == { i \in Ids(store) : store[i].feed = f /\ a \notin Falsy /\ store[i].audio = a }

\* C28: for a feed, a non-empty guid that matches a row returns that row
\* whatever the audio URL; otherwise the row matching the non-empty audio URL
\* is returned; when neither matches, or both are empty, nothing is
\* returned; a row of another feed is never returned.
C28_GuidBeforeAudio ==
  \A f \in Feeds : \A g \in LookupGuids : \A a \in LookupAudios :
    LET r == find_episode(store, f, g, a)
    IN /\ Cardinality(GuidRows(f, g)) <= 1
       /\ Cardinality(AudioRows(f, a)) <= 1
       /\ IF GuidRows(f, g) # {} THEN r \in GuidRows(f, g)
          ELSE IF AudioRows(f, a) # {} THEN r \in AudioRows(f, a)
          ELSE r = 0
       /\ r # 0 => store[r].feed = f

\* the ingestion looks up an entry whose guid is stored with one row and
\* whose audio URL is stored with another, and gets the guid's row
C28_Witness ==
  /\ pc = "ingest"
  /\ pending # <<>>
  /\ LET e == Head(pending)
     IN /\ GuidRows(feedIx, e.guid) # {}
        /\ AudioRows(feedIx, e.audio) # {}
        /\ GuidRows(feedIx, e.guid) # AudioRows(feedIx, e.audio)
        /\ find_episode(store, feedIx, e.guid, e.audio) \in GuidRows(feedIx, e.guid)
        /\ \E i \in Ids(store) : store[i].feed # feedIx /\ store[i].guid = e.guid


\* C22: get_episode_by_id fails with a not-found error on an id the store
\* does not hold, and processing invoked on such an id returns a failure and
\* leaves every row and every file unchanged.
C22_UnknownIdNoMutation ==
  [][(inv'.missing # 0 /\ inv' # inv) =>
       /\ inv'.missing \notin Ids(store)
       /\ ~get_episode_by_id(store, inv'.missing).ok
       /\ get_episode_by_id(store, inv'.missing).err = NotFoundMsg(inv'.missing)
       /\ inv'.result = "fail"
       /\ inv'.raised = NotFoundMsg(inv'.missing)
       /\ store' = store
       /\ files' = files]_vars

\* processing was invoked on an unknown id while the store held rows
C22_Witness == inv.missing # 0 /\ inv.result = "fail" /\ Len(store) >= 2 /\ inv.missing = Len(store) + 1


\* publish date descending with the rows without a date last, ties by
\* first-seen descending
ListedBefore(a, b) ==
  \/ store[a].pub_date # NoDate /\ store[b].pub_date = NoDate
  \/ store[a].pub_date # NoDate /\ store[b].pub_date # NoDate /\ store[a].pub_date > store[b].pub_date
  \/ store[a].pub_date = store[b].pub_date /\ a > b

FeedRows(t, url) == { i \in 1..Len(t) : t[i].url = url }

\* C21: upsert_feed keeps the feeds unique by URL and never rewrites a name or
\* slug that is set: a call returns the id of the one row with its URL, the
\* id an earlier call with that URL returned, and every row keeps its id, its
\* URL, and its name and slug once they are non-empty.
C21_UpsertKeepsFirst ==
  [][feeds' # feeds \/ upserted' # upserted =>
       /\ \A u \in FeedUrls : Cardinality(FeedRows(feeds', u)) <= 1
       /\ upserted' # NoUpsert =>
            /\ FeedRows(feeds', upserted'.url) = {upserted'.id}
            /\ FeedRows(feeds, upserted'.url) \subseteq {upserted'.id}
       /\ \A i \in 1..Len(feeds) :
            /\ i <= Len(feeds')
            /\ feeds'[i].url = feeds[i].url
            /\ feeds[i].name \notin Falsy => feeds'[i].name = feeds[i].name
            /\ feeds[i].slug \notin Falsy => feeds'[i].slug = feeds[i].slug]_vars

\* a feed stored with a name and a slug was upserted again with another name
\* and another slug, next to a row of another feed
C21_Witness ==
  /\ Len(feeds) = 2
  /\ upserted.id = 1
  /\ upserted.name = "n2" /\ feeds[1].name = "n1"
  /\ upserted.slug = "s2" /\ feeds[1].slug = "s1"


\* the comma-free stretches of a text that reach from a comma or the start to
\* a comma or the end
PiecesOf(s) ==
  { SubSeq(s, i, j) : <<i, j>> \in { x \in (1..(Len(s) + 1)) \X (0..Len(s)) :
        /\ x[1] <= x[2] + 1
        /\ \A k \in x[1]..x[2] : s[k] # ","
        /\ (x[1] = 1 \/ s[x[1] - 1] = ",")
        /\ (x[2] = Len(s) \/ s[x[2] + 1] = ",") } }

RECURSIVE TenTo(_)
TenTo(k) == IF k = 0 THEN 1 ELSE 10 * TenTo(k - 1)

IsNumeral(s) == s # <<>> /\ \A i \in 1..Len(s) : s[i] \in Digits

RECURSIVE NumeralVal(_)
NumeralVal(s) == IF s = <<>> THEN 0 ELSE DigitVal(Head(s)) * TenTo(Len(s) - 1) + NumeralVal(Tail(s))

\* the 1-based numbers a piece names: a numeral, or a numeral, a dash and a
\* numeral for all numbers from the first to the second
NamedBy(piece) ==
  LET p == Strip(piece)
  IN IF IsNumeral(p) THEN {NumeralVal(p)}
     ELSE UNION { NumeralVal(Strip(SubSeq(p, 1, j - 1)))..NumeralVal(Strip(SubSeq(p, j + 1, Len(p)))) :
                  j \in { i \in 1..Len(p) : /\ p[i] = "-"
                                              /\ IsNumeral(Strip(SubSeq(p, 1, i - 1)))
                                              /\ IsNumeral(Strip(SubSeq(p, i + 1, Len(p)))) } }

Named(s) == UNION { NamedBy(piece) : piece \in PiecesOf(s) }

\* every piece is blank, a numeral, or an ascending range of two numerals
WellFormed(s) ==
  \A piece \in PiecesOf(s) : Strip(piece) = <<>> \/ NamedBy(piece) # {}

IsAll(s) == Lower(Strip(s)) = <<"a", "l", "l">>

\* C27: parse_episode_selection either fails or returns a strictly ascending
\* list of 0-based indices within 0..n-1 that holds exactly the numbers and
\* ranges the input names; "1,3-5,8" with n = 10 gives 0,2,3,4,7; "all"
\* gives 0..n-1; an input naming a number outside 1..n fails, with the range
\* error when it is otherwise well formed; an empty input fails.
C27_SelectionParsed ==
  selection.parsed =>
    /\ (selection.ok /\ ~IsAll(selection.input)) =>
         /\ \A a, b \in 1..Len(selection.indices) : a < b => selection.indices[a] < selection.indices[b]
         /\ \A a \in 1..Len(selection.indices) : selection.indices[a] \in 0..(selection.n - 1)
         /\ { selection.indices[a] : a \in 1..Len(selection.indices) } = { k - 1 : k \in Named(selection.input) }
    /\ (selection.input = <<"1", ",", "3", "-", "5", ",", "8">> /\ selection.n = 10) =>
         (selection.ok /\ selection.indices = <<0, 2, 3, 4, 7>>)
    /\ IsAll(selection.input) =>
         (selection.ok /\ selection.indices = [i \in 1..selection.n |-> i - 1])
    /\ (\E k \in Named(selection.input) : k \notin 1..selection.n) =>
         /\ ~selection.ok
         /\ WellFormed(selection.input) => selection.err = RangeErrorMsg
    /\ Strip(selection.input) = <<>> => ~selection.ok

\* the example of the contract was parsed
C27_Witness ==
  /\ selection.parsed
  /\ selection.input = <<"1", ",", "3", "-", "5", ",", "8">>
  /\ selection.n = 10
  /\ selection.indices = <<0, 2, 3, 4, 7>>


\* C24: in the interactive program at most one worker thread is alive at
\* every moment, in single and in bulk processing and after the operator
\* interrupted the waiting view; a worker is started only while none is.
C24_OneWorker ==
  /\ bulk.workers <= 1
  /\ (op = "tui" /\ pc \in StagePcs \cup {"no_method"}) <=> bulk.workers = 1

\* the operator interrupted a bulk while its second episode was downloading
C24_Witness ==
  /\ bulk.interruptedAt = "dl_attempt"
  /\ bulk.view = "bulk_processing"
  /\ bulk.workers = 1
  /\ Cardinality(bulk.submitted) = 2

\* C25: an interrupt while a stage is in flight ends the waiting only: the
\* step leaves the worker, the store and the files as they are, and once the
\* worker is over the episode's status in the store is done after a run
\* that succeeded and error after one that failed.
C25_InterruptLeavesWorker ==
  [][/\ (bulk.interruptedAt = NULL /\ bulk'.interruptedAt \in StagePcs) =>
          /\ pc' = pc /\ cur' = cur /\ attempt' = attempt /\ inv' = inv
          /\ store' = store /\ files' = files
          /\ bulk'.workers = 1
     /\ (bulk'.interruptedAt \in StagePcs /\ pc' = "detached") =>
          /\ inv'.ep # 0
          /\ inv'.result \in {"ok", "fail"}
          /\ store'[inv'.ep].status = (IF inv'.result = "ok" THEN "done" ELSE "error")
          /\ inv'.result = "fail" => store'[inv'.ep].error = inv'.raised
          /\ bulk'.workers = 0]_vars

\* the operator interrupted during the download and the episode was
\* processed to done afterwards
C25_Witness ==
  /\ bulk.interruptedAt = "dl_attempt"
  /\ pc = "detached"
  /\ inv.ep # 0
  /\ inv.result = "ok"
  /\ inv.dlOk /\ inv.tr = 1 /\ inv.ins = 1
  /\ store[inv.ep].status = "done"


\* the statuses a mode does not take
Incompatible(mode) ==
  IF mode = "full" THEN {"done"}
  ELSE IF mode = "transcribe" THEN {"done", "transcribed"}
  ELSE Statuses \ {"transcribed"}

\* the bulk loop takes up the next episode of its list
BulkTurn == /\ pc = "bulk_head"
            /\ bulk.active /\ bulk'.active
            /\ bulk.ids # <<>>
            /\ bulk'.ids = Tail(bulk.ids)

\* the episodes of the confirmed list visited so far
Visited(b) == { b.order[k] : k \in 1..(Len(b.order) - Len(b.ids)) }

\* C26: a bulk visits the confirmed list in its order, one episode at a time;
\* an episode whose status, read at its turn, the mode does not take is
\* passed over, never handed to a worker, its row and files unchanged; every
\* other episode is handed to the one worker; and the summary's completed
\* count and skipped/failed count add up to the size of the list.
C26_BulkSkipsAtTurn ==
  [][/\ BulkTurn =>
          LET id == Head(bulk.ids)
          IN IF store[id].status \in Incompatible(bulk.mode)
             THEN /\ bulk'.skipped = bulk.skipped \cup {id}
                  /\ bulk'.submitted = bulk.submitted
                  /\ bulk'.workers = 0
                  /\ cur' = cur /\ pc' = pc
                  /\ store' = store /\ files' = files
             ELSE /\ bulk'.submitted = bulk.submitted \cup {id}
                  /\ bulk'.skipped = bulk.skipped
                  /\ bulk'.workers = 1
                  /\ cur' = id
     /\ bulk'.active =>
          /\ bulk'.ids = SubSeq(bulk'.order, Len(bulk'.order) - Len(bulk'.ids) + 1, Len(bulk'.order))
          /\ bulk'.submitted \cup bulk'.skipped = Visited(bulk')
          /\ bulk'.submitted \cap bulk'.skipped = {}
          /\ \A a, b \in 1..Len(bulk'.order) : a # b => bulk'.order[a] # bulk'.order[b]
     /\ bulk'.ended =>
          /\ bulk'.shown.completed + bulk'.shown.skipped = Len(bulk'.order)
          /\ bulk'.shown.completed = Cardinality(bulk'.submitted) - bulk'.failed
          /\ bulk'.shown.skipped = Cardinality(bulk'.skipped) + bulk'.failed]_vars

\* a bulk of two episodes in full mode ended after one was passed over,
\* done by then, and the other was processed to done
C26_Witness ==
  /\ bulk.ended
  /\ bulk.mode = "full"
  /\ Len(bulk.order) = 2
  /\ Cardinality(bulk.skipped) = 1
  /\ bulk.shown = [completed |-> 1, skipped |-> 1]
  /\ \A i \in bulk.all : store[i].status = "done"

\* a worker thread is started in the insights mode
InsightsRequest == bulk'.workers > bulk.workers /\ bulk'.mode = "insights"

\* C23: insights-only processing is never started for an episode whose status
\* is not transcribed: the action menu does not accept it, a bulk passes
\* such an episode over at its turn, and in both cases no stage runs and
\* the row keeps its status and its error message.
C23_InsightsOnlyPrecondition ==
  [][/\ InsightsRequest => store[cur'].status = "transcribed"
     /\ (BulkTurn /\ bulk.mode = "insights" /\ store[Head(bulk.ids)].status # "transcribed") =>
          /\ Head(bulk.ids) \in bulk'.skipped
          /\ bulk'.workers = 0
          /\ pc' = "bulk_head"
          /\ inv' = NoInv
          /\ store' = store /\ files' = files
     /\ (bulk.mode = "insights" /\ pc = "no_method") => (store' = store /\ files' = files)]_vars

\* a bulk in the insights mode passed over an episode that another process
\* had left in error
C23_Witness ==
  /\ bulk.active
  /\ bulk.mode = "insights"
  /\ \E i \in bulk.skipped : store[i].status = "error"
  /\ pc = "bulk_head"

\* the fields of a row that are set at its insertion
Identity(row) == [feed |-> row.feed, guid |-> row.guid, audio |-> row.audio, title |-> row.title,
                  pub_date |-> row.pub_date, path |-> PathOf(row)]

\* C31: every step keeps every row, with its feed, guid, audio URL, title,
\* publish date and paths; a row changes (in status and error) only in a
\* step of the pipeline working on that row, so an ingestion, of a new
\* or of a known entry, changes no existing row and resets no status to new.
C31_RowsChangeOnlyInPipeline ==
  [][\A i \in Ids(store) :
       /\ i \in Ids(store')
       /\ Identity(store'[i]) = Identity(store[i])
       /\ store'[i] # store[i] => (i = cur /\ pc \in StagePcs)
       /\ pc \in {"ingest", "pop_head"} => store'[i] = store[i]]_vars

\* a poll pass came upon the entry of an episode that an earlier pass had
\* processed to done, and left the row alone
C31_Witness ==
  /\ pc = "ingest"
  /\ pass.known
  /\ \E i \in Ids(store) : store[i].feed = feedIx /\ store[i].status = "done"

\* entries without a usable enclosure: with a guid that is stored, with one
\* that is not, with an empty one and without one
BareEntries(f) == { [feed |-> f, guid |-> g, audio |-> NULL, title |-> "t9", dt |-> 8] :
                    g \in {NULL, "", "g1", "g9"} }

\* C32: every row has a non-empty audio URL, every row an ingestion adds has
\* status new, and an entry without enclosure, with or without a guid, is
\* passed over by the ingestion whatever the store holds.
C32_NoAudioNoRow ==
  /\ [](\A i \in Ids(store) : store[i].audio \notin Falsy)
  /\ [](\A f \in Feeds : \A e \in BareEntries(f) : \A n \in 0..1 :
          IngestEntry(store, f, e, n, maxNew) = <<store, n>>)
  /\ [][\A i \in Ids(store') \ Ids(store) :
           /\ store'[i].status = "new"
           /\ store'[i].audio \notin Falsy
           /\ store'[i].error = NoMsg]_vars

\* an ingestion went through a document holding an entry with a guid and
\* no enclosure, and inserted the other entry only
C32_Witness ==
  /\ pc = "ingest"
  /\ pending = <<>>
  /\ \E e \in pass.doc : e.audio = NULL /\ e.guid \notin Falsy
  /\ Cardinality(pass.admitted) = 1
  /\ Len(store) = pass.base + 1
  /\ store[Len(store)].status = "new"

\* the statuses the user interface and the selection query know besides the
\* eight
ErrorSubstatuses == {"error_download", "error_transcribe", "error_insights"}

\* C33: the status of every row is one of new, downloading, downloaded,
\* transcribing, transcribed, analyzing, done, error, and so is every status
\* an invocation wrote; error_download, error_transcribe and error_insights
\* are never stored.
C33_EightStatuses ==
  /\ \A i \in Ids(store) : store[i].status \in Statuses /\ store[i].status \notin ErrorSubstatuses
  /\ inv.wrote \subseteq Statuses
  /\ inv.wrote \cap ErrorSubstatuses = {}

\* an interactive invocation failed in its transcription stage, after the
\* download, and left the row in error
C33_Witness ==
  /\ Ended
  /\ inv.runner = "tui"
  /\ inv.dlOk
  /\ inv.trOut = "exit"
  /\ "error" \in inv.wrote
  /\ InvStatus = "error"

InProgressStatuses == {"downloading", "downloaded", "transcribing", "transcribed", "analyzing"}

Selected == { queue[k] : k \in 1..Len(queue) }

RowsIn(f, S) == { i \in Ids(store) : store[i].feed = f /\ store[i].status \in S }

\* C34: the list selected for a feed holds rows of that feed only, each
\* once; it holds every row of the feed that is downloading, downloaded,
\* transcribing, transcribed or analyzing, whatever the cap; and of the rows
\* that are new it holds all without a cap and, with max_new_per_feed = k,
\* the k earliest first-seen ones (all of them if they are fewer), and
\* nothing else.
C34_CapOnNewOnly ==
  feedIx \in Feeds =>
    LET new == RowsIn(feedIx, {"new"})
        got == Selected \cap new
    IN /\ Cardinality(Selected) = Len(queue)
       /\ RowsIn(feedIx, InProgressStatuses) \subseteq Selected
       /\ Selected \subseteq new \cup RowsIn(feedIx, InProgressStatuses)
       /\ maxNew = NULL => got = new
       /\ maxNew # NULL =>
            /\ Cardinality(got) <= CapOf(maxNew)
            /\ Cardinality(got) < CapOf(maxNew) => got = new
            /\ \A a \in got : \A b \in new \ got : a < b

\* with a cap of 1 and a feed whose rows are a transcribed one and two new
\* ones, the transcribed one and the earlier new one were selected
C34_Witness ==
  /\ feedIx \in Feeds
  /\ maxNew = "1"
  /\ Len(store) = 3
  /\ store[1].status = "new" /\ store[2].status = "transcribed" /\ store[3].status = "new"
  /\ \A i \in Ids(store) : store[i].feed = feedIx
  /\ queue = <<1, 2>>

\* C35: every row that is done has its audio, transcript and insights
\* files, every row that is transcribed or analyzing has its audio and
\* transcript files, and every row that is downloaded or transcribing has
\* its audio file (no step of the model removes a file).
C35_StatusImpliesArtifacts ==
  \A i \in Ids(store) :
     /\ store[i].status = "done" =>
           Exists(files, store[i], "audio") /\ Exists(files, store[i], "transcript")
           /\ Exists(files, store[i], "insights")
     /\ store[i].status \in {"transcribed", "analyzing"} =>
           Exists(files, store[i], "audio") /\ Exists(files, store[i], "transcript")
     /\ store[i].status \in {"downloaded", "transcribing"} => Exists(files, store[i], "audio")

\* a poll pass was left by a failing insights command: the row stays
\* analyzing, with its audio and its transcript
C35_Witness ==
  /\ Ended
  /\ inv.result = "propagated"
  /\ inv.dlOk /\ inv.trOut = "ok" /\ inv.insOut = "exit"
  /\ InvStatus = "analyzing"
  /\ ArtifactsOf(files, store[inv.ep]) = {"audio", "transcript"}

\* C36: a row has an error message only while its status is error: in every
\* state a row with another status has none, and every step that writes a
\* status other than error to a row leaves it without a message.
C36_ErrorOnlyWithErrorStatus ==
  /\ [](\A i \in Ids(store) : store[i].error # NoMsg => store[i].status = "error")
  /\ [][\A i \in Ids(store) :
           (store'[i] # store[i] /\ store'[i].status # "error") => store'[i].error = NoMsg]_vars

\* an episode left in error with a message was taken up again and is
\* downloading, its message cleared
C36_Witness ==
  /\ inv.ep # 0
  /\ inv.startStatus = "error"
  /\ pc = "dl_attempt"
  /\ InvStatus = "downloading"
  /\ store[inv.ep].error = NoMsg

\* C37: a row that is done stays as it is in every step, no step makes it the
\* episode being processed, and the episode a pipeline is working on is
\* never one that is done.
C37_DoneIsAbsorbing ==
  /\ [](cur # 0 => store[cur].status # "done")
  /\ [][\A i \in Ids(store) :
           store[i].status = "done" => (store'[i] = store[i] /\ cur' # i)]_vars

\* a poll pass selected the episodes of a feed that holds a done episode
\* and an episode that is not, and left the done one out
C37_Witness ==
  /\ Runner = "watcher"
  /\ pc = "ep_head"
  /\ queue # <<>>
  /\ \E i \in Ids(store) :
        /\ store[i].feed = feedIx
        /\ store[i].status = "done"
        /\ i \notin pass.selected
        /\ i \notin pass.begun

\* the keys run() hands to handle_action_selection
ActionKeys == {"1", "2"}

\* C38: at the episode list, every episode that is not done has a key of
\* the action menu that starts its processing.
C38_NoEpisodeStuck ==
  (op = "tui" /\ bulk.view = "episode_list") =>
     \A i \in Ids(store) :
        store[i].status # "done" => \E key \in ActionKeys : ActionMode(store[i].status, key) # NULL

\* C39: two rows of a feed never have the same paths, and an invocation on
\* an episode that is new finds no artifact in place.
C39_PathsNotShared ==
  /\ \A i, j \in Ids(store) :
        (i # j /\ store[i].feed = store[j].feed) => PathOf(store[i]) # PathOf(store[j])
  /\ (inv.ep # 0 /\ inv.startStatus = "new") => inv.startFiles = {}

\* a fetch, an ingestion, a download attempt or a tool invocation has failed
SomethingFailed == \/ inv.fails > 0
                   \/ inv.result = "propagated"
                   \/ inv.trOut \in {"exit", "nofile"}
                   \/ inv.insOut \in {"exit", "nofile"}
                   \/ pass.raised # {}

\* no episode is in flight and none will be begun
BudgetSpent == runs >= MaxRuns /\ cur = 0

IsDone(i) == i \in Ids(store) /\ store[i].status = "done"

\* C40: in a run of the loop that is never stopped, whatever
\* max_new_per_feed is, either a fetch, an ingestion, a download attempt or
\* a tool fails at some time, or every episode that is in the store is
\* eventually done (or the episodes taken up reach MaxRuns first, with none
\* in flight).
C40_InsertedEventuallyDone ==
  \/ <>SomethingFailed
  \/ \A i \in 1..MaxRows : (i \in Ids(store)) ~> (IsDone(i) \/ BudgetSpent)

\* with a cap of 1, two episodes of the first feed were inserted and
\* processed to done in two passes, the last one through all its stages
C40_Witness ==
  /\ maxNew = "1"
  /\ Len(store) = 2
  /\ \A i \in Ids(store) : store[i].feed = 1 /\ store[i].status = "done"
  /\ Ended /\ inv.result = "ok" /\ inv.fails = 0
  /\ pass.raised = {}

====
